---------------------------- MODULE Spec2Model ----------------------------
(***************************************************************************)
(* A model of the smarthome voice pipeline:                                *)
(*   - package audio: Capture.captureLoop and its ringBuffer               *)
(*   - package audio: Playback.Play / Flush / Close                        *)
(*   - package tts:   Session.readLoop / Close                             *)
(*   - package main:  the loop over utterances and its drain goroutine     *)
(*   - EncodeWAV: the 44-byte header in front of the samples               *)
(* Each component has its own specification (CaptureSpec, PlaybackSpec,    *)
(* SessionSpec); the variables of the other components stay unchanged.     *)
(* MainSpec runs the components together under main; ShutdownSpec and      *)
(* FairShutdownSpec are a run of main that SIGINT or SIGTERM interrupts,   *)
(* InterruptedSpec one that may be interrupted at any point of any turn.   *)
(* WavSpec applies EncodeWAV to bounded arguments.                         *)
(***************************************************************************)
EXTENDS Integers, Sequences, FiniteSets, TLC

\* ------------------------------------------------------------------ bounds

\* Number of successfully classified frames a run of the capture loop handles.
MaxFrames == 10
\* Largest trailing-silence frame count drawn for options.silenceFrames
\* (WithSilenceFrames; the default is 35).
MaxSilenceFrames == 2
\* Largest pre-roll capacity drawn for options.preBufferFrames
\* (WithPreBufferFrames; the default is 8).
MaxPreBufferFrames == 2

\* Capacity of the utterance channel: make(chan []byte, 4).
chCap == 4

\* Samples per device frame (Playback.frameSize; PlaybackSampleRate / 10 in
\* NewPlayback), scaled down.
frameSize == 2
\* Total number of bytes passed to Play in a run.
MaxPlayBytes == 8
\* Longest byte slice passed to one Play call.
MaxChunk == 7
\* Number of Play calls in a run.
MaxPlays == 3
\* Number of Playback.Close calls in a run.
MaxSinkCloses == 2

\* Capacity of the session's audio channel (make(chan AudioChunk, 32)), scaled
\* down.
AudioCap == 2
\* Number of server messages the read loop receives in a run.
MaxMsgs == 3
\* Number of tasks that call Session.Close, and of Close calls in a run.
NumClosers == 2
MaxCloseCalls == 3

\* Number of utterances a run of main handles.
MaxTurns == 2
\* Number of server messages the sessions of a run of main receive.
MaxMainMsgs == 2
\* Number of device writes that fail in a run of main.
MaxWriteErrors == 1

\* The audio byte streams a run is checked for: a run plays consecutive slices
\* of one stream.
AudioStreams == {1, 2}

\* ------------------------------------------------------------------ state

VARIABLES
    \* shared cancellation signal: ctx.Done() of main's signal.NotifyContext
    cancelled,
    \* ---- Capture.captureLoop ----
    opts,          \* [silenceFrames, preBufferFrames]
    cpc,           \* position of the capture loop: "check" | "read" | "send" | "done"
    frames,        \* classification of every frame processed so far, in capture
                   \* order; frame i is the i-th successfully classified frame
    ring,          \* ringBuffer: [buf, size, pos, full]; buf holds frame numbers, 0 is nil
    utterance,     \* frames appended to the utterance being accumulated
    silenceCount,
    speaking,
    ch,            \* buffered contents of the utterance channel
    chClosed,      \* close(ch) has run
    emitted,       \* every send on ch so far: [utt, cancelled (ctx state at the send)]
    boundaries,    \* frame numbers at which silenceCount reached silenceFrames
    onsets,        \* every speech onset so far: [at, prefix (what ring.Drain returned)]
    received,      \* utterances main's range loop has taken from ch
    lastRead,      \* how the loop's last frame read ended: "none" | "ok" | "failed"
    \* ---- Playback ----
    pending,       \* Playback.pending: bytes not yet written
    frameBuf,      \* Playback.frameBuf: the frameSize samples the stream writes
    device,        \* every stream.Write() so far: [frame, res, pend (p.pending at the
                   \* write), op, closed]
    stops,         \* how many times stream.Stop(); stream.Close() has run
    played,        \* bytes passed to Play since the last Flush, in order
    plays,         \* number of Play calls since the last Flush
    totalPlays,    \* number of Play calls in the whole run
    mark,          \* Len(device) when the last Flush returned
    totalPlayed,   \* bytes passed to Play in the whole run
    audioSrc,      \* which of AudioStreams the caller is playing
    pbLast,        \* the last sink call: [op, before, after, given, nwrites, err]
    pbPanic,       \* a sink call panicked (index out of range)
    \* ---- tts.Session ----
    once,          \* Session.once: "new" | "running" | "done"
    closers,       \* position of each task calling Close: "idle" | "do" | "cancel" | "conn"
    closeCalls,    \* Close calls made
    closeReturns,  \* Close calls that returned
    cancels,       \* how many times s.cancel() has run
    connCloses,    \* how many times s.conn.Close() has run
    rpc,           \* position of readLoop: "check" | "read" | "readerr" | "send" | "exit" | "done"
    rchunk,        \* at "send": [chunk, then ("check" to continue, "exit" to return)]
    audio,         \* buffered contents of s.audio
    audioClosed,   \* close(s.audio) has run
    doneClosed,    \* close(s.done) has run
    sent,          \* every chunk sent on s.audio so far, in order
    msgs,          \* server messages read so far
    lastMsg,       \* the message the last conn.ReadMessage returned
    malformed,     \* reads that were a malformed message or an unexpected read error
    gotFinal,      \* a message flagged isFinal was read
    cons,          \* the task ranging over Audio(): "ranging" | "stopped"
    delivered,     \* chunks it has received, in order
    \* ---- main: the loop over the utterances ----
    mpc,           \* position of main: "range" | "transcribe" | "open" | "gen" | "wait" |
                   \* "close" | "done" | "crashed"
    conversation,  \* the conversation history: [role, text] entries
    resp,          \* what stt.Transcribe returned for the current utterance: [err, text]
    stream,        \* events the generation stream of the turn has still to yield
    reply,         \* strings.Builder reply: the deltas written so far, concatenated
    wg,            \* counter of the turn's sync.WaitGroup
    drains,        \* drain goroutines started and not yet returned
    ops,           \* operations on the turn's session, in order: [op, text]
    yielded,       \* content deltas the generation stream of the turn has yielded
    playLog,       \* chunk.Data of every speaker.Play call of the turn's drain task
    firstAt,       \* SendText calls made when the drain task received its first Data
                   \* chunk (-1 before that)
    failures,      \* collaborator errors of the current turn
    turnStart,     \* at the start of the turn: [conversation, sessions, genCalls, sinkCalls]
    sessions,      \* tts.NewSession calls that returned a session
    genCalls,      \* llmClient.StreamResponse calls
    sinkCalls,     \* speaker.Play and speaker.Flush calls
    \* ---- EncodeWAV ----
    wavArgs,       \* the arguments of the call: [pcm, sampleRate, channels, bitsPerSample]
    wav            \* what the call returned (<<>> before it has returned)

captureVars == <<opts, cpc, frames, ring, utterance, silenceCount, speaking,
                 ch, chClosed, emitted, boundaries, onsets, received, lastRead>>

playbackVars == <<pending, frameBuf, device, stops, played, plays, totalPlays, mark,
                  totalPlayed, audioSrc, pbLast, pbPanic>>

sessionVars == <<once, closers, closeCalls, closeReturns, cancels, connCloses, rpc, rchunk,
                 audio, audioClosed, doneClosed, sent, msgs, lastMsg, malformed, gotFinal, cons,
                 delivered>>

mainVars == <<mpc, conversation, resp, stream, reply, wg, drains, ops, yielded, playLog,
              firstAt, failures, turnStart, sessions, genCalls, sinkCalls>>

wavVars == <<wavArgs, wav>>

vars == <<cancelled, captureVars, playbackVars, sessionVars, mainVars, wavVars>>

\* ------------------------------------------------------------ ringBuffer

\* newRingBuffer(size): size nil slots, pos 0, not full.
newRingBuffer(size) ==
    [buf |-> [i \in 1..size |-> 0], size |-> size, pos |-> 0, full |-> FALSE]

\* ringBuffer.Push: store at pos, advance pos modulo size, full once pos wraps.
Push(r, frame) ==
    LET p == (r.pos + 1) % r.size
    IN  [buf  |-> [r.buf EXCEPT ![r.pos + 1] = frame],
         size |-> r.size,
         pos  |-> p,
         full |-> IF p = 0 THEN TRUE ELSE r.full]

\* The non-nil slots buf[lo..hi-1] (Go indices), in index order.
RECURSIVE Slots(_, _, _)
Slots(r, lo, hi) ==
    IF lo >= hi THEN <<>>
    ELSE (IF r.buf[lo + 1] # 0 THEN <<r.buf[lo + 1]>> ELSE <<>>) \o Slots(r, lo + 1, hi)

\* ringBuffer.Drain, the returned bytes: buf[pos..size) when full, then buf[0..pos).
DrainOut(r) ==
    (IF r.full THEN Slots(r, r.pos, r.size) ELSE <<>>) \o Slots(r, 0, r.pos)

\* A Drain that rewinds the ring and leaves it marked full.
DrainedStaysFull(r) == [r EXCEPT !.pos = 0]

\* ringBuffer.Drain, the ring it leaves: pos 0, not full, slots untouched.
Drained(r) == [r EXCEPT !.pos = 0, !.full = FALSE]

\* ------------------------------------------------------------ captureLoop

\* A loop that, on observing the cancellation, sends what it has accumulated
\* before it returns.
CaptureCheckSendsOnCancel ==
    /\ cpc = "check"
    /\ IF cancelled
          THEN /\ cpc' = "done"
               /\ chClosed' = TRUE
               /\ IF speaking /\ Len(ch) < chCap
                     THEN /\ ch' = Append(ch, utterance)
                          /\ emitted' = Append(emitted, [utt |-> utterance, cancelled |-> TRUE])
                     ELSE UNCHANGED <<ch, emitted>>
          ELSE cpc' = "read" /\ UNCHANGED <<chClosed, ch, emitted>>
    /\ UNCHANGED <<playbackVars, sessionVars, mainVars, wavVars>>
    /\ UNCHANGED <<cancelled, lastRead, opts, frames, ring, utterance, silenceCount, speaking,
                   boundaries, onsets, received>>

\* for { select { case <-ctx.Done(): return; default: } ... with defer close(ch)
CaptureCheck ==
    /\ cpc = "check"
    /\ IF cancelled
          THEN cpc' = "done" /\ chClosed' = TRUE
          ELSE cpc' = "read" /\ UNCHANGED chClosed
    /\ UNCHANGED <<playbackVars, sessionVars, mainVars, wavVars>>
    /\ UNCHANGED <<cancelled, lastRead, opts, frames, ring, utterance, silenceCount, speaking,
                   ch, emitted, boundaries, onsets, received>>

\* A capture loop that returns when a frame cannot be read or classified.
CaptureFrameErrorReturns ==
    /\ cpc = "read"
    /\ lastRead' = "failed"
    /\ cpc' = "done"
    /\ chClosed' = TRUE
    /\ UNCHANGED <<playbackVars, sessionVars, mainVars, wavVars>>
    /\ UNCHANGED <<cancelled, opts, frames, ring, utterance, silenceCount, speaking,
                   ch, emitted, boundaries, onsets, received>>

\* c.stream.Read() or c.vad.Process fails: logged, continue.
CaptureFrameError ==
    /\ cpc = "read"
    /\ lastRead' = "failed"
    /\ cpc' = "check"
    /\ UNCHANGED <<playbackVars, sessionVars, mainVars, wavVars>>
    /\ UNCHANGED <<cancelled, opts, frames, ring, utterance, silenceCount, speaking,
                   ch, chClosed, emitted, boundaries, onsets, received>>

\* A loop that leaves an inactive frame below the threshold out of the
\* utterance.
CaptureFrameSkipsSilence(active) ==
    /\ cpc = "read"
    /\ Len(frames) < MaxFrames
    /\ LET f == Len(frames) + 1
       IN  /\ frames' = Append(frames, active)
           /\ IF active
                 THEN /\ speaking' = TRUE
                      /\ silenceCount' = IF speaking THEN silenceCount ELSE 0
                      /\ utterance' =
                            Append(IF speaking THEN utterance ELSE DrainOut(ring), f)
                      /\ ring' = IF speaking THEN ring ELSE Drained(ring)
                      /\ onsets' = IF speaking THEN onsets
                                   ELSE Append(onsets, [at |-> f, prefix |-> DrainOut(ring)])
                      /\ cpc' = "check"
                      /\ UNCHANGED boundaries
                 ELSE /\ ring' = Push(ring, f)
                      /\ UNCHANGED <<speaking, onsets>>
                      /\ IF speaking
                            THEN /\ utterance' = IF silenceCount + 1 >= opts.silenceFrames
                                                 THEN Append(utterance, f) ELSE utterance
                                 /\ silenceCount' = silenceCount + 1
                                 /\ IF silenceCount + 1 >= opts.silenceFrames
                                       THEN cpc' = "send" /\ boundaries' = boundaries \cup {f}
                                       ELSE cpc' = "check" /\ UNCHANGED boundaries
                            ELSE /\ cpc' = "check"
                                 /\ UNCHANGED <<utterance, silenceCount, boundaries>>
    /\ lastRead' = "ok"
    /\ UNCHANGED <<playbackVars, sessionVars, mainVars, wavVars>>
    /\ UNCHANGED <<cancelled, opts, ch, chClosed, emitted, received>>

\* The frame was read and classified: the if active { ... } else { ... } body,
\* up to the select that sends the utterance.
CaptureFrame(active) ==
    /\ cpc = "read"
    /\ Len(frames) < MaxFrames
    /\ LET f == Len(frames) + 1
       IN  /\ frames' = Append(frames, active)
           /\ IF active
                 THEN /\ speaking' = TRUE
                      /\ silenceCount' = IF speaking THEN silenceCount ELSE 0
                      /\ utterance' =
                            Append(IF speaking THEN utterance ELSE DrainOut(ring), f)
                      /\ ring' = IF speaking THEN ring ELSE Drained(ring)
                      /\ onsets' = IF speaking THEN onsets
                                   ELSE Append(onsets, [at |-> f, prefix |-> DrainOut(ring)])
                      /\ cpc' = "check"
                      /\ UNCHANGED boundaries
                 ELSE /\ ring' = Push(ring, f)
                      /\ UNCHANGED <<speaking, onsets>>
                      /\ IF speaking
                            THEN /\ utterance' = Append(utterance, f)
                                 /\ silenceCount' = silenceCount + 1
                                 /\ IF silenceCount + 1 >= opts.silenceFrames
                                       THEN cpc' = "send" /\ boundaries' = boundaries \cup {f}
                                       ELSE cpc' = "check" /\ UNCHANGED boundaries
                            ELSE /\ cpc' = "check"
                                 /\ UNCHANGED <<utterance, silenceCount, boundaries>>
    /\ lastRead' = "ok"
    /\ UNCHANGED <<playbackVars, sessionVars, mainVars, wavVars>>
    /\ UNCHANGED <<cancelled, opts, ch, chClosed, emitted, received>>

\* A send after which the loop goes on with the segment and the buffer it
\* has just sent.
CaptureSendGoesOnSpeaking ==
    /\ cpc = "send"
    /\ Len(ch) < chCap
    /\ ch' = Append(ch, utterance)
    /\ emitted' = Append(emitted, [utt |-> utterance, cancelled |-> cancelled])
    /\ utterance' = utterance
    /\ speaking' = TRUE
    /\ silenceCount' = 0
    /\ cpc' = "check"
    /\ UNCHANGED <<playbackVars, sessionVars, mainVars, wavVars>>
    /\ UNCHANGED <<cancelled, lastRead, opts, frames, ring, chClosed, boundaries, onsets, received>>

\* A send after which the loop keeps accumulating into the utterance it sent.
CaptureSendKeepsUtterance ==
    /\ cpc = "send"
    /\ Len(ch) < chCap
    /\ ch' = Append(ch, utterance)
    /\ emitted' = Append(emitted, [utt |-> utterance, cancelled |-> cancelled])
    /\ utterance' = utterance
    /\ speaking' = FALSE
    /\ silenceCount' = 0
    /\ cpc' = "check"
    /\ UNCHANGED <<playbackVars, sessionVars, mainVars, wavVars>>
    /\ UNCHANGED <<cancelled, lastRead, opts, frames, ring, chClosed, boundaries, onsets, received>>

\* A send that never waits: with no room it puts the utterance in the place
\* of the oldest pending one.
CaptureSendOverwrites ==
    /\ cpc = "send"
    /\ ch' = Append(IF Len(ch) < chCap THEN ch ELSE Tail(ch), utterance)
    /\ emitted' = Append(emitted, [utt |-> utterance, cancelled |-> cancelled])
    /\ utterance' = <<>>
    /\ speaking' = FALSE
    /\ silenceCount' = 0
    /\ cpc' = "check"
    /\ UNCHANGED <<playbackVars, sessionVars, mainVars, wavVars>>
    /\ UNCHANGED <<cancelled, lastRead, opts, frames, ring, chClosed, boundaries, onsets, received>>

\* select { case ch <- utterance: ... }: the send is ready when the channel has
\* room; then utterance = nil, speaking = false, silenceCount = 0.
CaptureSend ==
    /\ cpc = "send"
    /\ Len(ch) < chCap
    /\ ch' = Append(ch, utterance)
    /\ emitted' = Append(emitted, [utt |-> utterance, cancelled |-> cancelled])
    /\ utterance' = <<>>
    /\ speaking' = FALSE
    /\ silenceCount' = 0
    /\ cpc' = "check"
    /\ UNCHANGED <<playbackVars, sessionVars, mainVars, wavVars>>
    /\ UNCHANGED <<cancelled, lastRead, opts, frames, ring, chClosed, boundaries, onsets, received>>

\* select { ... case <-ctx.Done(): return }: ready when cancellation is signaled.
CaptureSendCancelled ==
    /\ cpc = "send"
    /\ cancelled
    /\ cpc' = "done"
    /\ chClosed' = TRUE
    /\ UNCHANGED <<playbackVars, sessionVars, mainVars, wavVars>>
    /\ UNCHANGED <<cancelled, lastRead, opts, frames, ring, utterance, silenceCount, speaking,
                   ch, emitted, boundaries, onsets, received>>

\* main: for pcm := range utterances
Receive ==
    /\ ch # <<>>
    /\ received' = Append(received, Head(ch))
    /\ ch' = Tail(ch)
    /\ UNCHANGED <<playbackVars, sessionVars, mainVars, wavVars>>
    /\ UNCHANGED <<cancelled, lastRead, opts, cpc, frames, ring, utterance, silenceCount, speaking,
                   chClosed, emitted, boundaries, onsets>>

\* SIGINT / SIGTERM: signal.NotifyContext cancels ctx.
Cancel ==
    /\ ~cancelled
    /\ cancelled' = TRUE
    /\ UNCHANGED <<captureVars, playbackVars, sessionVars, mainVars, wavVars>>


\* ------------------------------------------------------------ Playback

frameSizeBytes == frameSize * 2

\* int16(binary.LittleEndian.Uint16(b)): two bytes, low first, as a signed
\* 16-bit sample.
Int16LE(lo, hi) ==
    LET u == lo + 256 * hi
    IN  IF u >= 32768 THEN u - 65536 ELSE u

\* A decode loop that reads sample i at pending[i:] instead of pending[i*2:].
DecodeIntoStride1(fb, pend, n) ==
    [i \in 1..frameSize |-> IF i <= n THEN Int16LE(pend[i], pend[i + 1]) ELSE fb[i]]

\* for i := 0; i < n; i++ { frameBuf[i] = int16(LittleEndian.Uint16(pending[i*2:])) }
DecodeInto(fb, pend, n) ==
    [i \in 1..frameSize |-> IF i <= n THEN Int16LE(pend[2 * i - 1], pend[2 * i]) ELSE fb[i]]

\* A Flush that leaves the rest of the frame buffer as it was.
ZeroFromSkipped(fb, n) == fb

\* for i := samples; i < frameSize; i++ { frameBuf[i] = 0 }
ZeroFrom(fb, n) == [i \in 1..frameSize |-> IF i > n THEN 0 ELSE fb[i]]

\* pending[n:]
DropBytes(pend, n) == SubSeq(pend, n + 1, Len(pend))

\* How stream.Write() can end: written, "Output underflowed", any other error.
WriteResults == {"ok", "underflow", "error"}

\* Play's loop with the test len(pending) > frameSizeBytes.
RECURSIVE PlayLoopGt(_, _, _)
PlayLoopGt(pend, fb, outs) ==
    IF Len(pend) > frameSizeBytes
    THEN LET fb2  == DecodeInto(fb, pend, frameSize)
             rest == DropBytes(pend, frameSizeBytes)
             w    == [frame |-> fb2, res |-> Head(outs), pend |-> rest]
         IN  IF Head(outs) = "error"
             THEN [pending |-> rest, frameBuf |-> fb2, writes |-> <<w>>, err |-> TRUE]
             ELSE LET r == PlayLoopGt(rest, fb2, Tail(outs))
                  IN  [r EXCEPT !.writes = <<w>> \o r.writes]
    ELSE [pending |-> pend, frameBuf |-> fb, writes |-> <<>>, err |-> FALSE]

\* A Play that returns every write failure, an output underrun included.
RECURSIVE PlayLoopUnderflowFails(_, _, _)
PlayLoopUnderflowFails(pend, fb, outs) ==
    IF Len(pend) >= frameSizeBytes
    THEN LET fb2  == DecodeInto(fb, pend, frameSize)
             rest == DropBytes(pend, frameSizeBytes)
             w    == [frame |-> fb2, res |-> Head(outs), pend |-> rest]
         IN  IF Head(outs) # "ok"
             THEN [pending |-> rest, frameBuf |-> fb2, writes |-> <<w>>, err |-> TRUE]
             ELSE LET r == PlayLoopUnderflowFails(rest, fb2, Tail(outs))
                  IN  [r EXCEPT !.writes = <<w>> \o r.writes]
    ELSE [pending |-> pend, frameBuf |-> fb, writes |-> <<>>, err |-> FALSE]

\* A Play that cuts the frame off the pending bytes after the write.
RECURSIVE PlayLoopWriteThenCut(_, _, _)
PlayLoopWriteThenCut(pend, fb, outs) ==
    IF Len(pend) >= frameSizeBytes
    THEN LET fb2  == DecodeInto(fb, pend, frameSize)
             rest == DropBytes(pend, frameSizeBytes)
             w    == [frame |-> fb2, res |-> Head(outs), pend |-> pend]
         IN  IF Head(outs) = "error"
             THEN [pending |-> pend, frameBuf |-> fb2, writes |-> <<w>>, err |-> TRUE]
             ELSE LET r == PlayLoopWriteThenCut(rest, fb2, Tail(outs))
                  IN  [r EXCEPT !.writes = <<w>> \o r.writes]
    ELSE [pending |-> pend, frameBuf |-> fb, writes |-> <<>>, err |-> FALSE]

\* The loop of Play over the pending bytes pend with frame buffer fb; outs[k]
\* is how the k-th stream.Write() of the call ends.  It returns what the call
\* leaves: the pending bytes, the frame buffer, the writes it made and whether
\* it returned an error.
RECURSIVE PlayLoop(_, _, _)
PlayLoop(pend, fb, outs) ==
    IF Len(pend) >= frameSizeBytes
    THEN LET fb2  == DecodeInto(fb, pend, frameSize)
             rest == DropBytes(pend, frameSizeBytes)
             w    == [frame |-> fb2, res |-> Head(outs), pend |-> rest]
         IN  IF Head(outs) = "error"
             THEN [pending |-> rest, frameBuf |-> fb2, writes |-> <<w>>, err |-> TRUE]
             ELSE LET r == PlayLoop(rest, fb2, Tail(outs))
                  IN  [r EXCEPT !.writes = <<w>> \o r.writes]
    ELSE [pending |-> pend, frameBuf |-> fb, writes |-> <<>>, err |-> FALSE]

\* The device log after the writes ws of one call.
Logged(ws, op) ==
    device \o [i \in 1..Len(ws) |->
                  [frame |-> ws[i].frame, res |-> ws[i].res, pend |-> ws[i].pend, op |-> op,
                   closed |-> stops > 0]]

\* Playback.Play(data): what it does to the sink.
PlayEffect(data, outs) ==
    /\ ~pbPanic
    /\ LET r == PlayLoop(pending \o data, frameBuf, outs)
       IN  /\ pending' = r.pending
           /\ frameBuf' = r.frameBuf
           /\ device' = Logged(r.writes, "play")
           /\ pbLast' = [op |-> "play", before |-> pending, after |-> r.pending,
                         given |-> Len(data), nwrites |-> Len(r.writes), err |-> r.err]
    /\ played' = played \o data
    /\ plays' = plays + 1
    /\ totalPlays' = totalPlays + 1
    /\ totalPlayed' = totalPlayed + Len(data)
    /\ UNCHANGED <<stops, mark, pbPanic, audioSrc>>

\* Playback.Play(data), called on the sink alone.
Play(data, outs) ==
    /\ PlayEffect(data, outs)
    /\ UNCHANGED <<cancelled, wavVars, captureVars, sessionVars, mainVars>>

\* Playback.Flush(), what it leaves for pending bytes pend and frame buffer fb
\* when its stream.Write() (if it makes one) ends as out.  Storing sample
\* number frameSize or later in frameBuf is an index out of range: a panic
\* before pending is cleared.
FlushResult(pend, fb, out) ==
    IF Len(pend) < 2
    THEN [pending |-> <<>>, frameBuf |-> fb, writes |-> <<>>, err |-> FALSE, panic |-> FALSE]
    ELSE LET samples == Len(pend) \div 2
         IN  IF samples > frameSize
             THEN [pending |-> pend, frameBuf |-> DecodeInto(fb, pend, frameSize),
                   writes |-> <<>>, err |-> FALSE, panic |-> TRUE]
             ELSE LET fb2 == ZeroFrom(DecodeInto(fb, pend, samples), samples)
                  IN  [pending |-> <<>>, frameBuf |-> fb2,
                       writes |-> <<[frame |-> fb2, res |-> out, pend |-> <<>>]>>,
                       err |-> (out = "error"), panic |-> FALSE]

\* Playback.Flush(): what it does to the sink.
FlushEffect(out) ==
    /\ ~pbPanic
    /\ LET r == FlushResult(pending, frameBuf, out)
       IN  /\ pending' = r.pending
           /\ frameBuf' = r.frameBuf
           /\ device' = Logged(r.writes, "flush")
           /\ pbPanic' = r.panic
           /\ pbLast' = [op |-> "flush", before |-> pending, after |-> r.pending,
                         given |-> 0, nwrites |-> Len(r.writes), err |-> r.err]
           /\ mark' = Len(device) + Len(r.writes)
    /\ played' = <<>>
    /\ plays' = 0
    /\ UNCHANGED <<stops, totalPlayed, totalPlays, audioSrc>>

\* Playback.Flush(), called on the sink alone.
Flush(out) ==
    /\ FlushEffect(out)
    /\ UNCHANGED <<cancelled, wavVars, captureVars, sessionVars, mainVars>>

\* Playback.Close(), the number of stop-and-release rounds after it: p.stream
\* is never reset to nil, so each call runs stream.Stop(); stream.Close().
StopsAfterClose(n) == n + 1

\* Playback.Close(): what it does to the sink.
CloseEffect ==
    /\ ~pbPanic
    /\ stops' = StopsAfterClose(stops)
    /\ pbLast' = [op |-> "close", before |-> pending, after |-> pending,
                  given |-> 0, nwrites |-> 0, err |-> FALSE]
    /\ UNCHANGED <<pending, frameBuf, device, played, plays, totalPlays, mark, totalPlayed,
                   pbPanic, audioSrc>>

\* Playback.Close(), called on the sink alone.
PlaybackClose ==
    /\ stops < MaxSinkCloses
    /\ CloseEffect
    /\ UNCHANGED <<cancelled, wavVars, captureVars, sessionVars, mainVars>>

\* Byte number k of audio stream src: all bytes of a stream differ, and both
\* streams hold bytes below and above 128 at even and odd offsets.
ByteAt(src, k) == IF src = 1 THEN (67 * k) % 256 ELSE (255 + 256 - 59 * k) % 256

\* The next n bytes of the stream being played.
NextBytes(n) == [i \in 1..n |-> ByteAt(audioSrc, totalPlayed + i)]

\* NewPlayback: a zeroed frame buffer, nothing pending, the stream started.
PlaybackInit ==
    /\ pending = <<>>
    /\ frameBuf = [i \in 1..frameSize |-> 0]
    /\ device = <<>>
    /\ stops = 0
    /\ played = <<>>
    /\ plays = 0
    /\ totalPlays = 0
    /\ mark = 0
    /\ totalPlayed = 0
    /\ audioSrc \in AudioStreams
    /\ pbLast = [op |-> "none", before |-> <<>>, after |-> <<>>, given |-> 0, nwrites |-> 0,
                 err |-> FALSE]
    /\ pbPanic = FALSE

PlaybackNext ==
    \/ \E n \in 0..MaxChunk :
          /\ totalPlayed + n <= MaxPlayBytes
          /\ totalPlays < MaxPlays
          /\ \E outs \in [1..((Len(pending) + n) \div frameSizeBytes) -> WriteResults] :
                Play(NextBytes(n), outs)
    \/ \E out \in WriteResults : Flush(out)
    \/ PlaybackClose


\* ------------------------------------------------------------ tts.Session

\* AudioChunk{Data, Error, Done}
DataChunk(d) == [Data |-> d, Error |-> "nil", Done |-> FALSE]
DoneChunk == [Data |-> <<>>, Error |-> "nil", Done |-> TRUE]
ErrorChunk(why) == [Data |-> <<>>, Error |-> why, Done |-> FALSE]

\* Before the first read there is no message: lastMsg holds an empty one.
NoMessage == [json |-> FALSE, audio |-> <<>>, isFinal |-> FALSE]

\* The "audio" strings of server messages, as sequences of tokens: a group of
\* four base64 characters, a newline, or a character outside the alphabet.
AudioStrings ==
    {<<>>, <<"\n">>, <<"QUJD">>, <<"REVG", "\n">>, <<"QUJD", "!">>}

\* What conn.ReadMessage can deliver: text that is not JSON, or a
\* wsAudioMessage {audio, isFinal}.
Messages ==
    {[json |-> FALSE, audio |-> <<>>, isFinal |-> FALSE]}
    \cup [json : {TRUE}, audio : AudioStrings, isFinal : BOOLEAN]

\* base64.StdEncoding.DecodeString: newlines are skipped, a character outside
\* the alphabet is an error, each group of four characters gives three bytes.
RECURSIVE DecodeString(_)
DecodeString(str) ==
    IF str = <<>> THEN [err |-> FALSE, data |-> <<>>]
    ELSE LET rest == DecodeString(Tail(str))
             tok  == Head(str)
         IN  IF tok = "!" \/ rest.err THEN [err |-> TRUE, data |-> <<>>]
             ELSE IF tok = "\n" THEN rest
             ELSE IF tok = "QUJD" THEN [err |-> FALSE, data |-> <<65, 66, 67>> \o rest.data]
             ELSE [err |-> FALSE, data |-> <<68, 69, 70>> \o rest.data]

NoSend(then) == [send |-> FALSE, chunk |-> DoneChunk, then |-> then]

\* A read loop that goes on reading after a message whose audio does not decode.
HandleMessageGoesOn(m) ==
    IF ~m.json THEN [send |-> TRUE, chunk |-> ErrorChunk("ws unmarshal"), then |-> "exit"]
    ELSE IF m.isFinal THEN [send |-> TRUE, chunk |-> DoneChunk, then |-> "exit"]
    ELSE IF m.audio = <<>> THEN NoSend("check")
    ELSE LET d == DecodeString(m.audio)
         IN  IF d.err
             THEN [send |-> TRUE, chunk |-> ErrorChunk("ws base64 decode"), then |-> "check"]
             ELSE IF Len(d.data) > 0
                  THEN [send |-> TRUE, chunk |-> DataChunk(d.data), then |-> "check"]
                  ELSE NoSend("check")

\* A read loop that returns on a final message without sending a Done chunk.
HandleMessageDropsFinal(m) ==
    IF ~m.json THEN [send |-> TRUE, chunk |-> ErrorChunk("ws unmarshal"), then |-> "exit"]
    ELSE IF m.isFinal THEN NoSend("exit")
    ELSE IF m.audio = <<>> THEN NoSend("check")
    ELSE LET d == DecodeString(m.audio)
         IN  IF d.err
             THEN [send |-> TRUE, chunk |-> ErrorChunk("ws base64 decode"), then |-> "exit"]
             ELSE IF Len(d.data) > 0
                  THEN [send |-> TRUE, chunk |-> DataChunk(d.data), then |-> "check"]
                  ELSE NoSend("check")

\* A read loop that sends the audio of a final message in its Done chunk.
HandleMessageFinalCarriesAudio(m) ==
    IF ~m.json THEN [send |-> TRUE, chunk |-> ErrorChunk("ws unmarshal"), then |-> "exit"]
    ELSE LET d == DecodeString(m.audio)
         IN  IF m.isFinal
             THEN [send |-> TRUE,
                   chunk |-> [Data |-> d.data, Error |-> "nil", Done |-> TRUE],
                   then |-> "exit"]
             ELSE IF m.audio = <<>> THEN NoSend("check")
             ELSE IF d.err
             THEN [send |-> TRUE, chunk |-> ErrorChunk("ws base64 decode"), then |-> "exit"]
             ELSE IF Len(d.data) > 0
                  THEN [send |-> TRUE, chunk |-> DataChunk(d.data), then |-> "check"]
                  ELSE NoSend("check")

\* readLoop, from json.Unmarshal to the end of the loop body: the chunk to
\* send, if any, and whether the loop then returns or continues.
HandleMessage(m) ==
    IF ~m.json THEN [send |-> TRUE, chunk |-> ErrorChunk("ws unmarshal"), then |-> "exit"]
    ELSE IF m.isFinal THEN [send |-> TRUE, chunk |-> DoneChunk, then |-> "exit"]
    ELSE IF m.audio = <<>> THEN NoSend("check")
    ELSE LET d == DecodeString(m.audio)
         IN  IF d.err
             THEN [send |-> TRUE, chunk |-> ErrorChunk("ws base64 decode"), then |-> "exit"]
             ELSE IF Len(d.data) > 0
                  THEN [send |-> TRUE, chunk |-> DataChunk(d.data), then |-> "check"]
                  ELSE NoSend("check")

\* The context readLoop watches: derived from main's ctx, cancelled by s.cancel().
ctxDone == cancelled \/ cancels > 0

\* for { select { case <-ctx.Done(): return; default: } ...
RlCheck ==
    /\ rpc = "check"
    /\ rpc' = IF ctxDone THEN "exit" ELSE "read"
    /\ UNCHANGED <<once, closers, closeCalls, closeReturns, cancels, connCloses, rchunk,
                   audio, audioClosed, doneClosed, sent, msgs, lastMsg, malformed, gotFinal, cons,
                   delivered>>
    /\ UNCHANGED <<cancelled, wavVars, captureVars, playbackVars, mainVars>>

\* s.conn.ReadMessage() returns a message from the service.
RlReadMessage(m) ==
    /\ rpc = "read"
    /\ connCloses = 0
    /\ msgs < MaxMsgs
    /\ msgs' = msgs + 1
    /\ lastMsg' = m
    /\ LET h == HandleMessage(m)
       IN  /\ rpc' = IF h.send THEN "send" ELSE h.then
           /\ rchunk' = IF h.send THEN [chunk |-> h.chunk, then |-> h.then] ELSE rchunk
    /\ malformed' = IF ~m.json \/ (~m.isFinal /\ DecodeString(m.audio).err)
                    THEN malformed + 1 ELSE malformed
    /\ gotFinal' = (gotFinal \/ (m.json /\ m.isFinal))
    /\ UNCHANGED <<once, closers, closeCalls, closeReturns, cancels, connCloses,
                   audio, audioClosed, doneClosed, sent, cons, delivered>>
    /\ UNCHANGED <<cancelled, wavVars, captureVars, playbackVars, mainVars>>

\* s.conn.ReadMessage() returns an error: a normal close frame from the
\* service (return), or any other error (the connection was lost, or was
\* closed by Close).
RlReadError(normal) ==
    /\ rpc = "read"
    /\ normal => connCloses = 0
    /\ rpc' = IF normal THEN "exit" ELSE "readerr"
    /\ UNCHANGED <<once, closers, closeCalls, closeReturns, cancels, connCloses, rchunk,
                   audio, audioClosed, doneClosed, sent, msgs, lastMsg, malformed, gotFinal, cons,
                   delivered>>
    /\ UNCHANGED <<cancelled, wavVars, captureVars, playbackVars, mainVars>>

\* After a read error: select { case <-ctx.Done(): return; default: }, then
\* s.audio <- AudioChunk{Error: ...}; return.
RlErrCheck ==
    /\ rpc = "readerr"
    /\ IF ctxDone
          THEN rpc' = "exit" /\ UNCHANGED <<rchunk, malformed>>
          ELSE /\ rpc' = "send"
               /\ rchunk' = [chunk |-> ErrorChunk("ws read"), then |-> "exit"]
               /\ malformed' = malformed + 1
    /\ UNCHANGED <<once, closers, closeCalls, closeReturns, cancels, connCloses,
                   audio, audioClosed, doneClosed, sent, msgs, lastMsg, gotFinal, cons, delivered>>
    /\ UNCHANGED <<cancelled, wavVars, captureVars, playbackVars, mainVars>>

\* s.audio <- chunk: completes when the channel has room.
RlSend ==
    /\ rpc = "send"
    /\ Len(audio) < AudioCap
    /\ audio' = Append(audio, rchunk.chunk)
    /\ sent' = Append(sent, rchunk.chunk)
    /\ rpc' = rchunk.then
    /\ UNCHANGED <<once, closers, closeCalls, closeReturns, cancels, connCloses, rchunk,
                   audioClosed, doneClosed, msgs, lastMsg, malformed, gotFinal, cons, delivered>>
    /\ UNCHANGED <<cancelled, wavVars, captureVars, playbackVars, mainVars>>

\* return: defer close(s.audio), defer close(s.done).
RlReturn ==
    /\ rpc = "exit"
    /\ rpc' = "done"
    /\ audioClosed' = TRUE
    /\ doneClosed' = TRUE
    /\ UNCHANGED <<once, closers, closeCalls, closeReturns, cancels, connCloses, rchunk,
                   audio, sent, msgs, lastMsg, malformed, gotFinal, cons, delivered>>
    /\ UNCHANGED <<cancelled, wavVars, captureVars, playbackVars, mainVars>>

\* A Close without sync.Once: every call runs the body.
OnceDoAlways(o) == "run"

\* s.once.Do(f) entered with the Once in state o: run f, wait for the call
\* that is running f, or return at once.
OnceDo(o) == IF o = "new" THEN "run" ELSE IF o = "running" THEN "wait" ELSE "skip"

\* A task calls s.Close().
CloseCall(c) ==
    /\ closers[c] = "idle"
    /\ closeCalls < MaxCloseCalls
    /\ closeCalls' = closeCalls + 1
    /\ closers' = [closers EXCEPT ![c] = "do"]
    /\ UNCHANGED <<once, closeReturns, cancels, connCloses, rpc, rchunk, audio, audioClosed,
                   doneClosed, sent, msgs, lastMsg, malformed, gotFinal, cons, delivered>>
    /\ UNCHANGED <<cancelled, wavVars, captureVars, playbackVars, mainVars>>

\* s.once.Do(...): the first call starts the body, a later one returns nil.
CloseOnce(c) ==
    /\ closers[c] = "do"
    /\ OnceDo(once) # "wait"
    /\ IF OnceDo(once) = "run"
          THEN /\ once' = "running"
               /\ closers' = [closers EXCEPT ![c] = "cancel"]
               /\ UNCHANGED closeReturns
          ELSE /\ closers' = [closers EXCEPT ![c] = "idle"]
               /\ closeReturns' = closeReturns + 1
               /\ UNCHANGED once
    /\ UNCHANGED <<closeCalls, cancels, connCloses, rpc, rchunk, audio, audioClosed,
                   doneClosed, sent, msgs, lastMsg, malformed, gotFinal, cons, delivered>>
    /\ UNCHANGED <<cancelled, wavVars, captureVars, playbackVars, mainVars>>

\* s.cancel()
CloseCancel(c) ==
    /\ closers[c] = "cancel"
    /\ cancels' = cancels + 1
    /\ closers' = [closers EXCEPT ![c] = "conn"]
    /\ UNCHANGED <<once, closeCalls, closeReturns, connCloses, rpc, rchunk, audio,
                   audioClosed, doneClosed, sent, msgs, lastMsg, malformed, gotFinal, cons, delivered>>
    /\ UNCHANGED <<cancelled, wavVars, captureVars, playbackVars, mainVars>>

\* s.conn.Close(); the Once is done; return nil.
CloseConn(c) ==
    /\ closers[c] = "conn"
    /\ connCloses' = connCloses + 1
    /\ once' = "done"
    /\ closers' = [closers EXCEPT ![c] = "idle"]
    /\ closeReturns' = closeReturns + 1
    /\ UNCHANGED <<closeCalls, cancels, rpc, rchunk, audio, audioClosed, doneClosed, sent,
                   msgs, lastMsg, malformed, gotFinal, cons, delivered>>
    /\ UNCHANGED <<cancelled, wavVars, captureVars, playbackVars, mainVars>>

\* main's drain task: for chunk := range wsSession.Audio() { ... }.  It stops
\* on an Error chunk, on a Done chunk, or when speaker.Play fails (playOk
\* false).
Drain(playOk) ==
    /\ cons = "ranging"
    /\ audio # <<>>
    /\ delivered' = Append(delivered, Head(audio))
    /\ audio' = Tail(audio)
    /\ cons' = IF Head(audio).Error # "nil" \/ Head(audio).Done \/ ~playOk
               THEN "stopped" ELSE "ranging"
    /\ UNCHANGED <<once, closers, closeCalls, closeReturns, cancels, connCloses, rpc, rchunk,
                   audioClosed, doneClosed, sent, msgs, lastMsg, malformed, gotFinal>>
    /\ UNCHANGED <<cancelled, wavVars, captureVars, playbackVars, mainVars>>

\* The range loop ends when the channel is closed and empty.
DrainEnd ==
    /\ cons = "ranging"
    /\ audio = <<>>
    /\ audioClosed
    /\ cons' = "stopped"
    /\ UNCHANGED <<once, closers, closeCalls, closeReturns, cancels, connCloses, rpc, rchunk,
                   audio, audioClosed, doneClosed, sent, msgs, lastMsg, malformed, gotFinal, delivered>>
    /\ UNCHANGED <<cancelled, wavVars, captureVars, playbackVars, mainVars>>

\* NewSession returned: the connection is open, readLoop has been started.
SessionInit ==
    /\ once = "new"
    /\ closers = [c \in 1..NumClosers |-> "idle"]
    /\ closeCalls = 0
    /\ closeReturns = 0
    /\ cancels = 0
    /\ connCloses = 0
    /\ rpc = "check"
    /\ rchunk = [chunk |-> DoneChunk, then |-> "exit"]
    /\ audio = <<>>
    /\ audioClosed = FALSE
    /\ doneClosed = FALSE
    /\ sent = <<>>
    /\ msgs = 0
    /\ lastMsg = NoMessage
    /\ malformed = 0
    /\ gotFinal = FALSE
    /\ cons = "ranging"
    /\ delivered = <<>>

ReadLoopStep ==
    \/ RlCheck
    \/ RlErrCheck
    \/ RlSend
    \/ RlReturn

CloseStep ==
    \E c \in 1..NumClosers : CloseOnce(c) \/ CloseCancel(c) \/ CloseConn(c)

DrainStep ==
    \/ \E playOk \in BOOLEAN : Drain(playOk)
    \/ DrainEnd

\* s.conn.ReadMessage() on a connection Close has closed returns an error.
ReadClosedConn == connCloses > 0 /\ RlReadError(FALSE)

SessionNext ==
    \/ ReadLoopStep
    \/ \E m \in Messages : RlReadMessage(m)
    \/ \E normal \in BOOLEAN : RlReadError(normal)
    \/ \E c \in 1..NumClosers : CloseCall(c)
    \/ CloseStep
    \/ DrainStep
    \/ Cancel

\* ------------------------------------------------------------ main

\* Texts are sequences of characters.  strings.TrimSpace: leading and trailing
\* white space removed.
RECURSIVE TrimLeft(_)
TrimLeft(t) == IF t # <<>> /\ Head(t) = " " THEN TrimLeft(Tail(t)) ELSE t

RECURSIVE TrimRight(_)
TrimRight(t) ==
    IF t # <<>> /\ t[Len(t)] = " " THEN TrimRight(SubSeq(t, 1, Len(t) - 1)) ELSE t

TrimSpace(t) == TrimRight(TrimLeft(t))

\* message.NewSystemMessage / NewUserMessage / NewMessage(message.Assistant, ...)
Message(role, t) == [role |-> role, text |-> t]

SystemMessage == Message("system", <<"S">>)

\* What stt.Transcribe can return: an error, or a response with a text.
Transcriptions ==
    {[err |-> TRUE, text |-> <<>>],
     [err |-> FALSE, text |-> <<" ">>],
     [err |-> FALSE, text |-> <<" ", "u">>]}

\* The events of a generation stream: types.EventContentDelta with its
\* content, types.EventError.
ContentDelta(t) == [type |-> "delta", content |-> t]
EventError == [type |-> "error", content |-> <<>>]

\* The generation streams a turn is checked for.
GenStreams ==
    {<<ContentDelta(<<"H">>), ContentDelta(<<" ", "d">>)>>,
     <<ContentDelta(<<"H">>), EventError>>,
     <<ContentDelta(<<" ">>)>>}

\* An entry of the log of operations on the turn's session.
Op(name, t) == [op |-> name, text |-> t]

\* The SendText calls among the operations made so far.
SendTexts == SelectSeq(ops, LAMBDA o : o.op = "SendText")

\* Before the first turn there is no session: no read loop, no drain task.
NoSession ==
    /\ once = "new"
    /\ closers = [c \in 1..NumClosers |-> "idle"]
    /\ closeCalls = 0
    /\ closeReturns = 0
    /\ cancels = 0
    /\ connCloses = 0
    /\ rpc = "done"
    /\ rchunk = [chunk |-> DoneChunk, then |-> "exit"]
    /\ audio = <<>>
    /\ audioClosed = FALSE
    /\ doneClosed = FALSE
    /\ sent = <<>>
    /\ msgs = 0
    /\ lastMsg = NoMessage
    /\ malformed = 0
    /\ gotFinal = FALSE
    /\ cons = "stopped"
    /\ delivered = <<>>

\* main before the loop: the conversation holds the system message.
MainInit ==
    /\ mpc = "range"
    /\ conversation = <<SystemMessage>>
    /\ resp = [err |-> FALSE, text |-> <<>>]
    /\ stream = <<>>
    /\ reply = <<>>
    /\ wg = 0
    /\ drains = 0
    /\ ops = <<>>
    /\ yielded = <<>>
    /\ playLog = <<>>
    /\ firstAt = -1
    /\ failures = {}
    /\ turnStart = [conversation |-> <<SystemMessage>>, sessions |-> 0, genCalls |-> 0,
                    sinkCalls |-> 0]
    /\ sessions = 0
    /\ genCalls = 0
    /\ sinkCalls = 0

\* for pcm := range utterances: an utterance is received and a turn starts.
MainRange ==
    /\ mpc = "range"
    /\ ch # <<>>
    /\ received' = Append(received, Head(ch))
    /\ ch' = Tail(ch)
    /\ mpc' = "transcribe"
    /\ failures' = {}
    /\ turnStart' = [conversation |-> conversation, sessions |-> sessions,
                     genCalls |-> genCalls, sinkCalls |-> sinkCalls]
    /\ UNCHANGED <<conversation, resp, stream, reply, wg, drains, ops, yielded, playLog,
                   firstAt, sessions, genCalls, sinkCalls>>
    /\ UNCHANGED <<cancelled, wavVars, opts, cpc, frames, ring, utterance, silenceCount, speaking,
                   chClosed, emitted, boundaries, onsets, lastRead>>
    /\ UNCHANGED <<playbackVars, sessionVars>>

\* The utterance channel is closed and empty: the loop ends, main returns and
\* its deferred speaker.Close() runs.
MainRangeEnd ==
    /\ mpc = "range"
    /\ ch = <<>>
    /\ chClosed
    /\ mpc' = "done"
    /\ CloseEffect
    /\ UNCHANGED <<conversation, resp, stream, reply, wg, drains, ops, yielded, playLog,
                   firstAt, failures, turnStart, sessions, genCalls, sinkCalls>>
    /\ UNCHANGED <<cancelled, wavVars, captureVars, sessionVars>>

\* A main that appends the raw transcript before it looks at it.
AfterTranscribeAppendsFirst(conv, r) ==
    IF r.err THEN [conversation |-> conv, to |-> "range", failed |-> TRUE]
    ELSE [conversation |-> Append(conv, Message("user", TrimSpace(r.text))),
          to |-> IF TrimSpace(r.text) = <<>> THEN "range" ELSE "open", failed |-> FALSE]

\* main, from the return of stt.Transcribe to the append of the user message:
\* an error or a transcript that trims to the empty string ends the turn.
AfterTranscribe(conv, r) ==
    IF r.err THEN [conversation |-> conv, to |-> "range", failed |-> TRUE]
    ELSE IF TrimSpace(r.text) = <<>>
         THEN [conversation |-> conv, to |-> "range", failed |-> FALSE]
         ELSE [conversation |-> Append(conv, Message("user", TrimSpace(r.text))),
               to |-> "open", failed |-> FALSE]

\* audio.EncodeWAV, stt.Transcribe returning r, and what main does with it.
MainTranscribe(r) ==
    /\ mpc = "transcribe"
    /\ resp' = r
    /\ LET a == AfterTranscribe(conversation, r)
       IN  /\ conversation' = a.conversation
           /\ mpc' = a.to
           /\ failures' = IF a.failed THEN failures \cup {"transcribe"} ELSE failures
    /\ UNCHANGED <<stream, reply, wg, drains, ops, yielded, playLog, firstAt, turnStart,
                   sessions, genCalls, sinkCalls>>
    /\ UNCHANGED <<cancelled, wavVars, captureVars, playbackVars, sessionVars>>

\* tts.NewSession returned a session: the state SessionInit describes (msgs
\* goes on counting the messages of the run).
SessionCreated ==
    /\ once' = "new"
    /\ closers' = [c \in 1..NumClosers |-> "idle"]
    /\ closeCalls' = 0
    /\ closeReturns' = 0
    /\ cancels' = 0
    /\ connCloses' = 0
    /\ rpc' = "check"
    /\ rchunk' = [chunk |-> DoneChunk, then |-> "exit"]
    /\ audio' = <<>>
    /\ audioClosed' = FALSE
    /\ doneClosed' = FALSE
    /\ sent' = <<>>
    /\ msgs' = msgs
    /\ lastMsg' = NoMessage
    /\ malformed' = 0
    /\ gotFinal' = FALSE
    /\ cons' = "ranging"
    /\ delivered' = <<>>

\* tts.NewSession fails: logged, continue.
MainOpenFails ==
    /\ mpc = "open"
    /\ mpc' = "range"
    /\ failures' = failures \cup {"open"}
    /\ UNCHANGED <<conversation, resp, stream, reply, wg, drains, ops, yielded, playLog,
                   firstAt, turnStart, sessions, genCalls, sinkCalls>>
    /\ UNCHANGED <<cancelled, wavVars, captureVars, playbackVars, sessionVars>>

\* tts.NewSession returns a session (its read loop started); wg.Add(1) and the
\* drain goroutine is started; llmClient.StreamResponse returns the stream evs.
\* DialContext does not connect once main's ctx is done.
\* The read loop of the previous turn's session, if it still runs, is left
\* behind: nothing reads its channel any more.
MainOpen(evs) ==
    /\ mpc = "open"
    /\ ~cancelled
    /\ mpc' = "gen"
    /\ SessionCreated
    /\ sessions' = sessions + 1
    /\ wg' = 1
    /\ drains' = drains + 1
    /\ ops' = <<Op("Created", <<>>)>>
    /\ stream' = evs
    /\ genCalls' = genCalls + 1
    /\ reply' = <<>>
    /\ yielded' = <<>>
    /\ playLog' = <<>>
    /\ firstAt' = -1
    /\ UNCHANGED <<conversation, resp, failures, turnStart, sinkCalls>>
    /\ UNCHANGED <<cancelled, wavVars, captureVars, playbackVars>>

\* A main that hands each new delta to the session ahead of the ones it has
\* already sent.
MainEventNewestFirst ==
    /\ mpc = "gen"
    /\ stream # <<>>
    /\ stream' = Tail(stream)
    /\ LET event == Head(stream)
       IN  IF event.type = "delta"
           THEN /\ reply' = reply \o event.content
                /\ yielded' = Append(yielded, event.content)
                /\ ops' = <<Head(ops), Op("SendText", event.content)>> \o Tail(ops)
                /\ UNCHANGED failures
           ELSE /\ failures' = failures \cup {"generation"}
                /\ UNCHANGED <<reply, yielded, ops>>
    /\ UNCHANGED <<mpc, conversation, resp, wg, drains, playLog, firstAt, turnStart,
                   sessions, genCalls, sinkCalls>>
    /\ UNCHANGED <<cancelled, wavVars, captureVars, playbackVars, sessionVars>>

\* for event := range stream: one event.  A content delta is written to the
\* reply and passed to wsSession.SendText (an error of its conn.WriteJSON is
\* logged, nothing else); an error event is logged.
MainEvent ==
    /\ mpc = "gen"
    /\ stream # <<>>
    /\ stream' = Tail(stream)
    /\ LET event == Head(stream)
       IN  IF event.type = "delta"
           THEN /\ reply' = reply \o event.content
                /\ yielded' = Append(yielded, event.content)
                /\ ops' = Append(ops, Op("SendText", event.content))
                /\ UNCHANGED failures
           ELSE /\ failures' = failures \cup {"generation"}
                /\ UNCHANGED <<reply, yielded, ops>>
    /\ UNCHANGED <<mpc, conversation, resp, wg, drains, playLog, firstAt, turnStart,
                   sessions, genCalls, sinkCalls>>
    /\ UNCHANGED <<cancelled, wavVars, captureVars, playbackVars, sessionVars>>

\* A main that goes on to wg.Wait() without flushing the session.
MainFlushSkipped ==
    /\ mpc = "gen"
    /\ stream = <<>>
    /\ mpc' = "wait"
    /\ UNCHANGED <<conversation, resp, stream, reply, wg, drains, ops, yielded, playLog,
                   firstAt, failures, turnStart, sessions, genCalls, sinkCalls>>
    /\ UNCHANGED <<cancelled, wavVars, captureVars, playbackVars, sessionVars>>

\* The stream has ended: wsSession.Flush() (an error of its conn.WriteJSON is
\* logged, nothing else), then wg.Wait().
MainFlush ==
    /\ mpc = "gen"
    /\ stream = <<>>
    /\ ops' = Append(ops, Op("Flush", <<>>))
    /\ mpc' = "wait"
    /\ UNCHANGED <<conversation, resp, stream, reply, wg, drains, yielded, playLog, firstAt,
                   failures, turnStart, sessions, genCalls, sinkCalls>>
    /\ UNCHANGED <<cancelled, wavVars, captureVars, playbackVars, sessionVars>>

\* A wg.Wait() that returns at once.
WaitGroupZeroAlways(n) == TRUE

\* wg.Wait() returns when the counter is zero.
WaitGroupZero(n) == n = 0

\* A main that goes on without joining the drain goroutine.
MainWaitSkipsJoin ==
    /\ mpc = "wait"
    /\ mpc' = "close"
    /\ UNCHANGED <<conversation, resp, stream, reply, wg, drains, ops, yielded, playLog,
                   firstAt, failures, turnStart, sessions, genCalls, sinkCalls>>
    /\ UNCHANGED <<cancelled, wavVars, captureVars, playbackVars, sessionVars>>

\* wg.Wait() returns.
MainWait ==
    /\ mpc = "wait"
    /\ WaitGroupZero(wg)
    /\ mpc' = "close"
    /\ UNCHANGED <<conversation, resp, stream, reply, wg, drains, ops, yielded, playLog,
                   firstAt, failures, turnStart, sessions, genCalls, sinkCalls>>
    /\ UNCHANGED <<cancelled, wavVars, captureVars, playbackVars, sessionVars>>

\* wsSession.Close() is called.
MainClose ==
    /\ mpc = "close"
    /\ closeCalls = 0
    /\ closeCalls' = 1
    /\ closers' = [closers EXCEPT ![1] = "do"]
    /\ ops' = Append(ops, Op("Close", <<>>))
    /\ UNCHANGED <<once, closeReturns, cancels, connCloses, rpc, rchunk, audio, audioClosed,
                   doneClosed, sent, msgs, lastMsg, malformed, gotFinal, cons, delivered>>
    /\ UNCHANGED <<mpc, conversation, resp, stream, reply, wg, drains, yielded, playLog,
                   firstAt, failures, turnStart, sessions, genCalls, sinkCalls>>
    /\ UNCHANGED <<cancelled, wavVars, captureVars, playbackVars>>

\* A main that appends the trimmed reply whatever it is.
MainAppendAlways ==
    /\ mpc = "close"
    /\ closeReturns = 1
    /\ conversation' = Append(conversation, Message("assistant", TrimSpace(reply)))
    /\ mpc' = "range"
    /\ UNCHANGED <<resp, stream, reply, wg, drains, ops, yielded, playLog, firstAt, failures,
                   turnStart, sessions, genCalls, sinkCalls>>
    /\ UNCHANGED <<cancelled, wavVars, captureVars, playbackVars, sessionVars>>

\* wsSession.Close() has returned: the reply is appended to the conversation
\* when it is not empty after trimming, and the loop goes on.
MainAppend ==
    /\ mpc = "close"
    /\ closeReturns = 1
    /\ conversation' = IF TrimSpace(reply) # <<>>
                       THEN Append(conversation, Message("assistant", TrimSpace(reply)))
                       ELSE conversation
    /\ mpc' = "range"
    /\ UNCHANGED <<resp, stream, reply, wg, drains, ops, yielded, playLog, firstAt, failures,
                   turnStart, sessions, genCalls, sinkCalls>>
    /\ UNCHANGED <<cancelled, wavVars, captureVars, playbackVars, sessionVars>>

\* The drain goroutine returns: defer wg.Done().
DrainReturns ==
    /\ wg' = wg - 1
    /\ drains' = drains - 1

\* The drain goroutine: for chunk := range wsSession.Audio(), one chunk.  An
\* Error chunk makes it return; a Done chunk ends the loop; the data of any
\* other chunk is passed to speaker.Play, whose failure makes it return.
DrainChunk(outs) ==
    /\ cons = "ranging"
    /\ audio # <<>>
    /\ audio' = Tail(audio)
    /\ delivered' = Append(delivered, Head(audio))
    /\ firstAt' = IF firstAt = -1 /\ Head(audio).Error = "nil" /\ ~Head(audio).Done
                  THEN Len(SendTexts) ELSE firstAt
    /\ LET chunk == Head(audio)
       IN  IF chunk.Error # "nil"
           THEN /\ outs = <<>>
                /\ cons' = "stopped"
                /\ DrainReturns
                /\ failures' = failures \cup {"chunk"}
                /\ UNCHANGED <<playbackVars, playLog, sinkCalls>>
           ELSE IF chunk.Done
           THEN /\ outs = <<>>
                /\ cons' = "flush"
                /\ UNCHANGED <<playbackVars, playLog, sinkCalls, wg, drains, failures>>
           ELSE /\ PlayEffect(chunk.Data, outs)
                /\ playLog' = Append(playLog, chunk.Data)
                /\ sinkCalls' = sinkCalls + 1
                /\ IF PlayLoop(pending \o chunk.Data, frameBuf, outs).err
                      THEN /\ cons' = "stopped"
                           /\ DrainReturns
                           /\ failures' = failures \cup {"playback"}
                      ELSE /\ cons' = "ranging"
                           /\ UNCHANGED <<wg, drains, failures>>
    /\ UNCHANGED <<once, closers, closeCalls, closeReturns, cancels, connCloses, rpc, rchunk,
                   audioClosed, doneClosed, sent, msgs, lastMsg, malformed, gotFinal>>
    /\ UNCHANGED <<mpc, conversation, resp, stream, reply, ops, yielded, turnStart, sessions,
                   genCalls>>
    /\ UNCHANGED <<cancelled, wavVars, captureVars>>

\* The audio channel is closed and empty: the range loop of the drain
\* goroutine ends.
DrainRangeEnd ==
    /\ cons = "ranging"
    /\ audio = <<>>
    /\ audioClosed
    /\ cons' = "flush"
    /\ UNCHANGED <<once, closers, closeCalls, closeReturns, cancels, connCloses, rpc, rchunk,
                   audio, audioClosed, doneClosed, sent, msgs, lastMsg, malformed, gotFinal, delivered>>
    /\ UNCHANGED <<cancelled, wavVars, captureVars, playbackVars, mainVars>>

\* After the loop: speaker.Flush(), then the goroutine returns.  A panic in
\* Flush ends the process.
DrainFlush(out) ==
    /\ cons = "flush"
    /\ Len(pending) < 2 => out = "ok"
    /\ FlushEffect(out)
    /\ sinkCalls' = sinkCalls + 1
    /\ LET r == FlushResult(pending, frameBuf, out)
       IN  IF r.panic
           THEN /\ cons' = "crashed"
                /\ mpc' = "crashed"
                /\ UNCHANGED <<wg, drains, failures>>
           ELSE /\ cons' = "stopped"
                /\ DrainReturns
                /\ failures' = IF r.err THEN failures \cup {"playback"} ELSE failures
                /\ UNCHANGED mpc
    /\ UNCHANGED <<once, closers, closeCalls, closeReturns, cancels, connCloses, rpc, rchunk,
                   audio, audioClosed, doneClosed, sent, msgs, lastMsg, malformed, gotFinal, delivered>>
    /\ UNCHANGED <<conversation, resp, stream, reply, ops, yielded, playLog, firstAt,
                   turnStart, sessions, genCalls>>
    /\ UNCHANGED <<cancelled, wavVars, captureVars>>

\* ------------------------------------------------------------ EncodeWAV

\* Longest pcm slice passed to EncodeWAV.
MaxPcm == 2

\* binary.LittleEndian.PutUint16 of uint16(v): the two low bytes of v.
PutUint16(v) == <<v % 256, (v \div 256) % 256>>

\* A PutUint32 that writes the most significant byte first.
PutUint32BigEndian(v) ==
    <<(v \div 16777216) % 256, (v \div 65536) % 256, (v \div 256) % 256, v % 256>>

\* binary.LittleEndian.PutUint32 of uint32(v): the four low bytes of v.
PutUint32(v) ==
    <<v % 256, (v \div 256) % 256, (v \div 65536) % 256, (v \div 16777216) % 256>>

\* The bytes of "RIFF", "WAVE", "fmt " and "data".
RIFF == <<82, 73, 70, 70>>
WAVE == <<87, 65, 86, 69>>
fmtTag == <<102, 109, 116, 32>>
dataTag == <<100, 97, 116, 97>>

\* EncodeWAV(pcm, sampleRate, channels, bitsPerSample): the 44 header bytes,
\* then pcm.
EncodeWAV(pcm, sampleRate, channels, bitsPerSample) ==
    LET dataSize == Len(pcm)
        fileSize == 36 + dataSize
        byteRate == (sampleRate * channels * bitsPerSample) \div 8
        blockAlign == (channels * bitsPerSample) \div 8
        header == RIFF \o PutUint32(fileSize) \o WAVE \o fmtTag \o PutUint32(16)
                  \o PutUint16(1) \o PutUint16(channels) \o PutUint32(sampleRate)
                  \o PutUint32(byteRate) \o PutUint16(blockAlign)
                  \o PutUint16(bitsPerSample) \o dataTag \o PutUint32(dataSize)
    IN  header \o pcm

\* The pcm slices a call is checked for: every slice of 0 and 255 bytes up to
\* MaxPcm long.
WavPcms == UNION {[1..n -> {0, 255}] : n \in 0..MaxPcm}

\* The formats a call is checked for, each field fitting its header field:
\* the rates and widths of speech audio with one or two channels, and the
\* largest channel counts at the smallest rates.
WavFormats ==
    [sampleRate : {0, 1, 16000, 24000}, channels : {1, 2}, bitsPerSample : {8, 12, 16}]
    \cup [sampleRate : {0, 1}, channels : {32768, 65535}, bitsPerSample : {8, 12, 16}]

\* The arguments of one call.
WavInit ==
    /\ \E p \in WavPcms, f \in WavFormats :
          wavArgs = [pcm |-> p, sampleRate |-> f.sampleRate, channels |-> f.channels,
                     bitsPerSample |-> f.bitsPerSample]
    /\ wav = <<>>

\* The call returns.
Encode ==
    /\ wav = <<>>
    /\ wav' = EncodeWAV(wavArgs.pcm, wavArgs.sampleRate, wavArgs.channels,
                        wavArgs.bitsPerSample)
    /\ UNCHANGED <<cancelled, captureVars, playbackVars, sessionVars, mainVars, wavArgs>>

\* ------------------------------------------------------------ specifications

\* The option sets a run of the capture loop is checked for.
CaptureOptions ==
    [silenceFrames : 1..MaxSilenceFrames, preBufferFrames : 1..MaxPreBufferFrames]

\* Capture.Start with options o: the locals of captureLoop, an empty channel.
CaptureInit(o) ==
    /\ opts = o
    /\ cpc = "check"
    /\ frames = <<>>
    /\ ring = newRingBuffer(opts.preBufferFrames)
    /\ utterance = <<>>
    /\ silenceCount = 0
    /\ speaking = FALSE
    /\ ch = <<>>
    /\ chClosed = FALSE
    /\ emitted = <<>>
    /\ boundaries = {}
    /\ onsets = <<>>
    /\ received = <<>>
    /\ lastRead = "none"

\* EncodeWAV has not been called; main calls it with DefaultSampleRate, one
\* channel and 16 bits.
WavIdle ==
    /\ wavArgs = [pcm |-> <<>>, sampleRate |-> 16000, channels |-> 1, bitsPerSample |-> 16]
    /\ wav = <<>>

Init ==
    /\ cancelled = FALSE
    /\ \E o \in CaptureOptions : CaptureInit(o)
    /\ PlaybackInit
    /\ SessionInit
    /\ MainInit
    /\ WavIdle

\* The sink alone: the capture loop is started with one option set and left.
PlaybackOnlyInit ==
    /\ cancelled = FALSE
    /\ CaptureInit([silenceFrames |-> 1, preBufferFrames |-> 1])
    /\ PlaybackInit
    /\ SessionInit
    /\ MainInit
    /\ WavIdle

\* The session alone: one capture option set, one audio stream, both left.
SessionOnlyInit ==
    /\ PlaybackOnlyInit
    /\ audioSrc = 1

CaptureNext ==
    \/ CaptureCheck
    \/ CaptureFrameError
    \/ \E active \in BOOLEAN : CaptureFrame(active)
    \/ CaptureSend
    \/ CaptureSendCancelled
    \/ Receive
    \/ Cancel

CaptureSpec == Init /\ [][CaptureNext]_vars

PlaybackSpec == PlaybackOnlyInit /\ [][PlaybackNext]_vars

SessionSpec == SessionOnlyInit /\ [][SessionNext]_vars

\* One call of EncodeWAV, the pipeline left as it starts.
WavSpecInit ==
    /\ cancelled = FALSE
    /\ CaptureInit([silenceFrames |-> 1, preBufferFrames |-> 1])
    /\ PlaybackInit
    /\ audioSrc = 1
    /\ SessionInit
    /\ MainInit
    /\ WavInit

WavNext == Encode

WavSpec == WavSpecInit /\ [][WavNext]_vars

\* The results of stream.Write() a run of main is checked for.
MainWriteResults == {"ok", "error"}

\* Device writes that have failed so far.
WriteErrors == Cardinality({i \in 1..Len(device) : device[i].res = "error"})

\* The results of the writes a sink call of the drain task can get: one per
\* write the call can make, at most MaxWriteErrors failures in a run.
DrainWrites(n) ==
    {outs \in [1..n -> MainWriteResults] :
        WriteErrors + Cardinality({i \in 1..n : outs[i] = "error"}) <= MaxWriteErrors}

\* The writes speaker.Play makes for the next chunk when none fails.
NextPlayWrites ==
    IF cons = "ranging" /\ audio # <<>> /\ Head(audio).Error = "nil" /\ ~Head(audio).Done
    THEN (Len(pending) + Len(Head(audio).Data)) \div frameSizeBytes
    ELSE 0

\* The server messages a run of main is checked for: audio of three bytes,
\* audio of twelve bytes, a final message, a message that is not JSON.
MainMessages ==
    {[json |-> TRUE, audio |-> <<"QUJD">>, isFinal |-> FALSE],
     [json |-> TRUE, audio |-> <<"REVG", "QUJD", "REVG", "QUJD">>, isFinal |-> FALSE],
     [json |-> TRUE, audio |-> <<>>, isFinal |-> TRUE],
     [json |-> FALSE, audio |-> <<>>, isFinal |-> FALSE]}

\* The microphone in a run of main: somebody speaks only while main waits for
\* an utterance, one active and one inactive frame per utterance, n times;
\* otherwise stream.Read() waits for the next frame.
SpeechArrives(n) == mpc = "range" /\ ch = <<>> /\ Len(emitted) < n

MainCapture ==
    \/ CaptureCheck
    \/ CaptureSend
    \/ SpeechArrives(MaxTurns) /\ CaptureFrame(~speaking)

MainStep ==
    \/ MainRange
    \/ \E r \in Transcriptions : MainTranscribe(r)
    \/ MainOpenFails
    \/ \E evs \in GenStreams : MainOpen(evs)
    \/ MainEvent
    \/ MainFlush
    \/ MainWait
    \/ MainClose
    \/ MainAppend

MainDrainStep ==
    \/ \E outs \in DrainWrites(NextPlayWrites) : DrainChunk(outs)
    \/ DrainRangeEnd
    \/ \E outs \in DrainWrites(1) : DrainFlush(outs[1])

\* What the synthesis service and the connection do: a message arrives, the
\* service closes the connection, the connection is lost.
ServiceStep ==
    \/ \E m \in MainMessages : msgs < MaxMainMsgs /\ RlReadMessage(m)
    \/ \E normal \in BOOLEAN : connCloses = 0 /\ RlReadError(normal)

MainNext ==
    \/ MainCapture
    \/ MainStep
    \/ MainDrainStep
    \/ ReadLoopStep
    \/ ServiceStep
    \/ ReadClosedConn
    \/ CloseStep

\* main started: the capture loop runs with one option set, the sink is
\* open, there is no session yet.
MainSpecInit ==
    /\ cancelled = FALSE
    /\ CaptureInit([silenceFrames |-> 1, preBufferFrames |-> 1])
    /\ PlaybackInit
    /\ audioSrc = 1
    /\ NoSession
    /\ MainInit
    /\ WavIdle

MainSpec == MainSpecInit /\ [][MainNext]_vars

\* A run of main that is interrupted: one utterance is spoken, SIGINT or
\* SIGTERM arrives at any moment, and after it a frame read may fail.
ShutdownCapture ==
    \/ CaptureCheck
    \/ CaptureSend
    \/ CaptureSendCancelled
    \/ SpeechArrives(1) /\ CaptureFrame(~speaking)
    \/ cancelled /\ CaptureFrameError

ShutdownNext ==
    \/ ShutdownCapture
    \/ MainStep
    \/ MainRangeEnd
    \/ MainDrainStep
    \/ ReadLoopStep
    \/ ServiceStep
    \/ ReadClosedConn
    \/ CloseStep
    \/ Cancel

ShutdownSpec == MainSpecInit /\ [][ShutdownNext]_vars

\* The interrupted run with as many utterances as a run of main handles.
InterruptedCapture ==
    \/ CaptureCheck
    \/ CaptureSend
    \/ CaptureSendCancelled
    \/ SpeechArrives(MaxTurns) /\ CaptureFrame(~speaking)
    \/ cancelled /\ CaptureFrameError

InterruptedNext ==
    \/ InterruptedCapture
    \/ MainStep
    \/ MainRangeEnd
    \/ MainDrainStep
    \/ ReadLoopStep
    \/ ServiceStep
    \/ ReadClosedConn
    \/ CloseStep
    \/ Cancel

InterruptedSpec == MainSpecInit /\ [][InterruptedNext]_vars

\* The interrupted run with its goroutines scheduled fairly: the capture
\* loop, main, the drain goroutine and the read loop each take a step they
\* can take.  Nothing is assumed of the synthesis service or the signal.
FairShutdownSpec ==
    /\ ShutdownSpec
    /\ WF_vars(ShutdownCapture)
    /\ WF_vars(MainStep \/ MainRangeEnd \/ CloseStep)
    /\ WF_vars(MainDrainStep)
    /\ WF_vars(ReadLoopStep \/ ReadClosedConn)

\* The three components side by side.
Next == CaptureNext \/ PlaybackNext \/ SessionNext

Spec == Init /\ [][Next]_vars

\* The scheduler runs every task that can take a step: the read loop, the
\* tasks inside Close, the drain task while it ranges over the channel; and a
\* read on a closed connection returns.  Nothing obliges the service to send,
\* a task to call Close, or a signal to come.
FairSessionSpec ==
    /\ SessionSpec
    /\ WF_vars(ReadLoopStep)
    /\ WF_vars(CloseStep)
    /\ WF_vars(ReadClosedConn)
    /\ WF_vars(DrainStep)

\* ------------------------------------------------------------ capture claims

Min(a, b) == IF a <= b THEN a ELSE b

\* The frames at which a run of silenceFrames inactive frames, directly after
\* an active frame, is complete.
SilenceRunEnds ==
    {j \in 1..Len(frames) :
        /\ j > opts.silenceFrames
        /\ frames[j - opts.silenceFrames]
        /\ \A k \in (j - opts.silenceFrames + 1)..j : ~frames[k]}

\* C1: an utterance is emitted exactly when a contiguous run of at least
\* silenceFrames inactive frames follows an active frame since the previous
\* emission; shorter inactive spans between active frames never end the
\* utterance.
C1_EmitIffSilenceRun == boundaries = SilenceRunEnds

\* The m frames captured immediately before frame f, in capture order.
FramesBefore(f, m) == [i \in 1..m |-> f - m + i - 1]

\* Frames captured after the last active frame before f (all of them when
\* there is none).
SinceLastActive(f) ==
    LET act == {k \in 1..(f - 1) : frames[k]}
    IN  IF act = {} THEN f - 1
        ELSE f - 1 - (CHOOSE k \in act : \A l \in act : l <= k)

\* Frames captured after the last utterance boundary before f (all of them
\* when there is none).
SinceLastBoundary(f) ==
    LET bs == {b \in boundaries : b < f}
    IN  IF bs = {} THEN f - 1
        ELSE f - 1 - (CHOOSE b \in bs : \A l \in bs : l <= b)

\* C2: at every speech onset the prefix put in front of the onset frame is the
\* last min(preBufferFrames, frames-since-last-speech) frames captured
\* immediately before the onset frame, in capture order.  "Since last speech"
\* is read either as since the last active frame or as since the last
\* utterance ended; the formula accepts both readings.
C2_PrefixIsPreRoll ==
    \A i \in 1..Len(onsets) :
        LET o == onsets[i]
        IN  \/ o.prefix = FramesBefore(o.at, Min(opts.preBufferFrames, SinceLastActive(o.at)))
            \/ o.prefix = FramesBefore(o.at, Min(opts.preBufferFrames, SinceLastBoundary(o.at)))

\* C3: once the cancellation signal is raised the capture loop never sends an
\* utterance on the utterance channel.
C3_NoSendAfterCancel == \A i \in 1..Len(emitted) : ~emitted[i].cancelled

\* The segmenter state, with the frames it has classified so far.
segmenter == <<speaking, silenceCount, utterance, ring, frames, boundaries, onsets>>

\* C19: a step of the capture loop in which reading or classifying the frame
\* fails drops the frame and leaves the speaking flag, the silence counter,
\* the utterance buffer and the pre-roll ring as they were; the loop goes back
\* to the top for the next frame: it does not return, close the channel or
\* send an utterance.
C19_FrameErrorIsSkipped ==
    [][(cpc = "read" /\ cpc' # "read" /\ lastRead' = "failed") =>
          /\ cpc' = "check"
          /\ UNCHANGED segmenter
          /\ UNCHANGED <<ch, chClosed, emitted>>]_vars

\* A frame failed while an utterance was being accumulated (an active frame,
\* an inactive frame below the threshold, then the failure): the loop is back
\* at its top, still speaking, the utterance and the counter intact.
C19_Witness ==
    /\ lastRead = "failed"
    /\ cpc = "check"
    /\ speaking
    /\ silenceCount = 1
    /\ Len(utterance) >= 2
    /\ ~chClosed

\* ------------------------------------------------------------ playback claims

\* The device writes since the last Flush returned.
SinceFlush == SubSeq(device, mark + 1, Len(device))

\* The sample that bytes 2i-1 and 2i of bs hold (little-endian, signed).
SampleAt(bs, i) ==
    LET u == bs[2 * i - 1] + 256 * bs[2 * i]
    IN  IF u < 32768 THEN u ELSE u - 65536

\* The two bytes of a sample, low byte first.
SampleBytes(x) ==
    LET u == IF x < 0 THEN x + 65536 ELSE x
    IN  <<u % 256, u \div 256>>

RECURSIVE FrameBytes(_)
FrameBytes(frame) ==
    IF frame = <<>> THEN <<>> ELSE SampleBytes(Head(frame)) \o FrameBytes(Tail(frame))

\* The bytes of the frames of the writes ws that satisfy keep, in order.
RECURSIVE WriteBytes(_, _)
WriteBytes(ws, keepErrors) ==
    IF ws = <<>> THEN <<>>
    ELSE (IF keepErrors \/ Head(ws).res # "error" THEN FrameBytes(Head(ws).frame) ELSE <<>>)
         \o WriteBytes(Tail(ws), keepErrors)

NoWriteError(ws) == \A i \in 1..Len(ws) : ws[i].res # "error"

\* C4: while no device write fails, the Play calls since the last Flush have
\* made floor(bytes played / frame bytes) device writes, the k-th carrying
\* the frameSize samples of the k-th frame of the played bytes.
C4_OneWritePerFrame ==
    NoWriteError(SinceFlush) =>
        /\ Len(SinceFlush) = Len(played) \div frameSizeBytes
        /\ \A k \in 1..Len(SinceFlush) :
              /\ SinceFlush[k].op = "play"
              /\ SinceFlush[k].frame =
                    [i \in 1..frameSize |-> SampleAt(played, (k - 1) * frameSize + i)]

\* Play(a) then Play(b), a not a whole number of frames, len(a) + len(b) two
\* frames, both writes succeeding: two writes were made.
C4_Witness ==
    /\ plays = 2
    /\ Len(played) = 2 * frameSizeBytes
    /\ pbLast.op = "play"
    /\ Len(pbLast.before) % frameSizeBytes # 0
    /\ Len(SinceFlush) = 2
    /\ \A i \in 1..2 : SinceFlush[i].res = "ok"

\* C5 as stated: after a Play that returns without error, pending is shorter
\* than a frame and the frames written to the device since the last Flush,
\* followed by pending, are the bytes passed to Play since the last Flush.
C5_WrittenThenPendingIsPlayed ==
    (pbLast.op = "play" /\ ~pbLast.err) =>
        /\ Len(pending) < frameSizeBytes
        /\ WriteBytes(SinceFlush, FALSE) \o pending = played

\* C5 amended: after a Play that returns without error, pending is shorter
\* than a frame, and the frames handed to a device write since the last Flush
\* followed by pending are the bytes passed to Play since the last Flush; they
\* are the frames written when no write since the last Flush failed.
C5_PlayKeepsBytes ==
    (pbLast.op = "play" /\ ~pbLast.err) =>
        /\ Len(pending) < frameSizeBytes
        /\ WriteBytes(SinceFlush, TRUE) \o pending = played
        /\ NoWriteError(SinceFlush) => WriteBytes(SinceFlush, FALSE) \o pending = played

\* A Play that returned without error, made a write and left a remainder,
\* after an earlier Play since the last Flush had left bytes pending.
C5_Witness ==
    /\ pbLast.op = "play" /\ ~pbLast.err
    /\ plays >= 2
    /\ pbLast.before # <<>>
    /\ pbLast.nwrites >= 1
    /\ pending # <<>>
    /\ NoWriteError(SinceFlush)

\* C6: Flush with p < one frame of bytes pending: for p >= 2 it makes exactly
\* one device write, of a full frame whose first floor(p/2) samples are the
\* pending samples and whose other samples are zero; for p < 2 it makes none;
\* pending is empty afterwards, whatever the write returned.
C6_FlushPadsPartialFrame ==
    (pbLast.op = "flush" /\ Len(pbLast.before) < frameSizeBytes) =>
        LET p == Len(pbLast.before)
        IN  /\ pending = <<>>
            /\ ~pbPanic
            /\ IF p >= 2
               THEN /\ pbLast.nwrites = 1
                    /\ device[Len(device)].op = "flush"
                    /\ device[Len(device)].frame =
                          [i \in 1..frameSize |->
                              IF i <= p \div 2 THEN SampleAt(pbLast.before, i) ELSE 0]
               ELSE pbLast.nwrites = 0

\* A Flush of an odd number of pending bytes, at least one sample, whose
\* write failed, after the frame buffer had held a played frame.
C6_Witness ==
    /\ pbLast.op = "flush"
    /\ Len(pbLast.before) < frameSizeBytes
    /\ Len(pbLast.before) >= 2
    /\ Len(pbLast.before) % 2 = 1
    /\ Len(device) >= 2
    /\ device[Len(device)].res = "error"
    /\ device[Len(device) - 1].op = "play"

\* The device writes the last sink call made.
LastWrites == SubSeq(device, Len(device) - pbLast.nwrites + 1, Len(device))

\* C20: a device write that reports an output underrun is treated like a
\* successful write: Play goes on with the remaining full frames and returns
\* no error, Flush returns no error.  Any other write failure is returned as
\* an error, and it is the last write Play makes in that call.
C20_UnderrunIsSuppressed ==
    /\ pbLast.op = "play" =>
          LET full == (Len(pbLast.before) + pbLast.given) \div frameSizeBytes
          IN  /\ pbLast.err <=> \E i \in 1..Len(LastWrites) : LastWrites[i].res = "error"
              /\ \A i \in 1..(Len(LastWrites) - 1) : LastWrites[i].res # "error"
              /\ ~pbLast.err => pbLast.nwrites = full
              /\ pbLast.err => pbLast.nwrites <= full
    /\ pbLast.op = "flush" =>
          (pbLast.err <=> (pbLast.nwrites = 1 /\ LastWrites[1].res = "error"))

\* A Play of two frames whose first write reported an underrun: it made
\* the second write and returned no error.
C20_Witness ==
    /\ pbLast.op = "play"
    /\ pbLast.nwrites = 2
    /\ LastWrites[1].res = "underflow"
    /\ LastWrites[2].res = "ok"
    /\ ~pbLast.err

\* C7 (the sink): Close or Flush on a closed sink is a no-op: Flush attempts
\* no device write once the sink is closed, and a repeated Close does not
\* stop and release the device a second time.
C7_ClosedSinkIsNoOp ==
    /\ stops <= 1
    /\ \A i \in 1..Len(device) : device[i].op = "flush" => ~device[i].closed

\* ------------------------------------------------------------ session claims

\* C8: however many Close calls are made, one after another or at the same
\* time, before or after the read loop has ended, s.cancel() and
\* s.conn.Close() each run at most once, and exactly once as soon as a Close
\* call has returned; no Close call is left waiting once the body has run.
C8_CloseRunsOnce ==
    /\ cancels <= 1
    /\ connCloses <= 1
    /\ closeReturns > 0 => (cancels = 1 /\ connCloses = 1)
    /\ once = "done" => \A c \in 1..NumClosers : closers[c] \in {"idle", "do"}

\* Three Close calls have returned, two of them made while another was in
\* progress, after the read loop had already ended.
C8_Witness ==
    /\ closeReturns = 3
    /\ closeCalls = 3
    /\ rpc = "done"
    /\ cancels = 1
    /\ connCloses = 1

Terminal(c) == c.Done \/ c.Error # "nil"

ErrorCount(cs) == Cardinality({i \in 1..Len(cs) : cs[i].Error # "nil"})

C10_ReadTaskTerminates ==
    (once = "done" \/ gotFinal) ~> (rpc = "done" /\ audioClosed /\ doneClosed)

\* ------------------------------------------------------------ main claims

\* The turn's session is driven by SendText(t1), SendText(t2), Flush(): the
\* generation stream of the turn yields two content deltas and nothing else.
TwoSendsScenario ==
    /\ mpc \in {"gen", "wait", "close"}
    /\ "generation" \notin failures
    /\ Len(yielded) + Len(stream) = 2
    /\ \A i \in 1..Len(stream) : stream[i].type = "delta"

DoneCount(cs) == Cardinality({i \in 1..Len(cs) : cs[i].Done})

\* The scenario with nothing going wrong: no malformed message, no lost
\* connection, no failed device write.
HealthyScenario ==
    /\ TwoSendsScenario
    /\ malformed = 0
    /\ failures = {}

\* C11 as stated: for a session driven by SendText(t1), SendText(t2),
\* Flush(), every audio chunk is delivered to the consumer strictly after both
\* SendText calls have been made, and the delivered chunk sequence ends with
\* exactly one Done marker.
C11_ChunksAfterBothSends ==
    HealthyScenario =>
        /\ firstAt \in {-1, 2}
        /\ cons = "stopped" =>
              /\ delivered # <<>>
              /\ delivered[Len(delivered)].Done
              /\ DoneCount(delivered) = 1

\* C11 amended: for such a session the chunks are delivered to the consumer
\* in the order the read loop sent them, at any time after the session was
\* created; the delivered sequence holds at most one Done marker and nothing
\* after it; and once the service's final message has been read and the
\* consumer has taken every chunk, the sequence ends with exactly one Done
\* marker.
C11_DoneMarkerEndsChunks ==
    TwoSendsScenario =>
        /\ firstAt \in {-1, 0, 1, 2}
        /\ delivered \o audio = sent
        /\ \A i \in 1..Len(delivered) : delivered[i].Done => i = Len(delivered)
        /\ (gotFinal /\ rpc = "done" /\ audio = <<>>) =>
              /\ delivered # <<>>
              /\ delivered[Len(delivered)].Done
              /\ DoneCount(delivered) = 1

\* A data chunk was delivered between the two SendText calls, the Done marker
\* after the Flush; the drain task has returned.
C11_Witness ==
    /\ TwoSendsScenario
    /\ Len(SendTexts) = 2
    /\ ops[Len(ops)].op = "Flush"
    /\ firstAt = 1
    /\ Len(delivered) = 2
    /\ delivered[1].Data # <<>>
    /\ delivered[2].Done
    /\ cons = "stopped"

\* The transcript of the last utterance main has transcribed is empty after
\* trimming.
EmptyTranscript ==
    /\ received # <<>>
    /\ mpc # "transcribe"
    /\ ~resp.err
    /\ TrimSpace(resp.text) = <<>>

\* C12: when the transcript of an utterance is empty after trimming, the turn
\* adds no entry to the conversation, opens no synthesis session, calls
\* neither the generation collaborator nor the sink, and main is back at the
\* head of the loop for the next utterance.
C12_EmptyTranscriptIsDiscarded ==
    EmptyTranscript =>
        /\ mpc = "range"
        /\ conversation = turnStart.conversation
        /\ sessions = turnStart.sessions
        /\ genCalls = turnStart.genCalls
        /\ sinkCalls = turnStart.sinkCalls

\* After a complete first turn (user and assistant entry, a session, sink
\* calls) the second utterance was transcribed as white space only.
C12_Witness ==
    /\ EmptyTranscript
    /\ resp.text = <<" ">>
    /\ Len(received) = 2
    /\ Len(conversation) = 3
    /\ sessions = 1
    /\ sinkCalls >= 2

\* C13: main does not go on to the next utterance before both tasks of the
\* turn have finished: while main is at the head of the loop, transcribing or
\* opening a session, the generation stream of the last turn has been
\* consumed to its end and no drain goroutine is alive; at most one drain
\* goroutine is alive at any time, and only between the opening of the turn's
\* session and the return of wg.Wait().
C13_TurnsAreJoined ==
    /\ drains <= 1
    /\ mpc \in {"range", "transcribe", "open"} =>
          /\ drains = 0
          /\ wg = 0
          /\ stream = <<>>
          /\ cons = "stopped"
    /\ cons \in {"ranging", "flush"} => (drains = 1 /\ mpc \in {"gen", "wait"})
    /\ mpc = "close" => drains = 0

\* The second utterance is being transcribed after a first turn whose drain
\* goroutine played a chunk, received the Done marker and returned.
C13_Witness ==
    /\ mpc = "transcribe"
    /\ Len(received) = 2
    /\ sessions = 1
    /\ drains = 0
    /\ Len(delivered) = 2
    /\ delivered[2].Done
    /\ Len(playLog) = 1

\* The place of an operation in the life of a session.
OpRank(name) ==
    CASE name = "Created" -> 0
      [] name = "SendText" -> 1
      [] name = "Flush" -> 2
      [] name = "Close" -> 3

OpCount(name) == Cardinality({i \in 1..Len(ops) : ops[i].op = name})

\* C14: on every session a turn opens the operations come in the order
\* Created, SendText (any number, one per content delta consumed, none after
\* the stream has ended), exactly one Flush (after the generation stream has
\* ended), Close (after the drain goroutine has returned); nothing follows
\* Close; and when main is back at the head of the loop the session of the
\* last turn has been closed.
C14_SessionOperationsInOrder ==
    ops # <<>> =>
        /\ ops[1].op = "Created"
        /\ \A i, j \in 1..Len(ops) : i < j => OpRank(ops[i].op) <= OpRank(ops[j].op)
        /\ OpCount("Created") = 1
        /\ OpCount("Flush") <= 1
        /\ OpCount("Close") <= 1
        /\ OpCount("SendText") = Len(yielded)
        /\ OpCount("Flush") = 1 => stream = <<>>
        /\ mpc = "gen" => OpCount("Flush") = 0
        /\ mpc \in {"wait", "close"} => OpCount("Flush") = 1
        /\ OpCount("Close") = 1 => (OpCount("Flush") = 1 /\ drains = 0 /\ cons = "stopped")
        /\ mpc \in {"range", "transcribe", "open"} =>
              /\ ops[Len(ops)].op = "Close"
              /\ once = "done"
              /\ cancels = 1
              /\ connCloses = 1

\* The second turn has ended: its session saw Created, two SendText calls,
\* Flush and Close.
C14_Witness ==
    /\ mpc = "range"
    /\ sessions = 2
    /\ [i \in 1..Len(ops) |-> ops[i].op] =
          <<"Created", "SendText", "SendText", "Flush", "Close">>
    /\ once = "done"

\* The collaborator errors C15 names: transcription error, session open
\* failure, generation error event, Error chunk, playback failure.
TurnFailures == {"transcribe", "open", "generation", "chunk", "playback"}

\* C15: after a turn in which a collaborator reported an error, the
\* conversation is what it was before the turn: the turn leaves no user entry
\* and no assistant entry.
C15_FailedTurnLeavesNoHistory ==
    (mpc = "range" /\ failures \cap TurnFailures # {}) =>
        conversation = turnStart.conversation

\* C16: a collaborator error during a turn ends only that turn and is never
\* fatal to the process: whatever the collaborators have reported, in this
\* turn or an earlier one, no task of main panics and main does not leave its
\* loop, so that it can return to waiting for the next utterance.
C16_ErrorEndsOnlyTheTurn ==
    /\ mpc \in {"range", "transcribe", "open", "gen", "wait", "close"}
    /\ cons \in {"ranging", "flush", "stopped"}
    /\ ~pbPanic

\* The texts of a sequence of SendText operations, in order.
TextsOf(os) == [i \in 1..Len(os) |-> os[i].text]

\* The contents of the content deltas of a generation stream, in order.
DeltasOf(evs) ==
    LET ds == SelectSeq(evs, LAMBDA e : e.type = "delta")
    IN  [i \in 1..Len(ds) |-> ds[i].content]

\* The payloads of the Data chunks of a chunk sequence, in order.
DataOf(cs) ==
    LET ds == SelectSeq(cs, LAMBDA c : c.Error = "nil" /\ ~c.Done)
    IN  [i \in 1..Len(ds) |-> ds[i].Data]

IsPrefix(s, t) == Len(s) <= Len(t) /\ SubSeq(t, 1, Len(s)) = s

\* C17: within a turn the texts passed to SendText are, in order, the deltas
\* the generation stream has yielded so far (those and the deltas still to
\* come make up the stream generation returned), and the payloads passed to
\* the sink's Play are, in order and one Play each, the first Data chunks the
\* read loop got from the synthesis service: nothing is duplicated or
\* reordered.
C17_DeltasAndChunksInOrder ==
    mpc \in {"gen", "wait", "close"} =>
        /\ TextsOf(SendTexts) = yielded
        /\ \E g \in GenStreams : yielded \o DeltasOf(stream) = DeltasOf(g)
        /\ playLog = DataOf(delivered)
        /\ IsPrefix(playLog, DataOf(sent))

\* Two different deltas were sent and two different Data chunks were played,
\* each Play succeeding; the stream has ended.
C17_Witness ==
    /\ mpc = "wait"
    /\ Len(yielded) = 2
    /\ yielded[1] # yielded[2]
    /\ TextsOf(SendTexts) = yielded
    /\ Len(playLog) = 2
    /\ playLog[1] # playLog[2]
    /\ playLog = DataOf(sent)
    /\ failures = {}

\* C18: after the shared cancellation signal is raised every task waiting at
\* a suspension point returns without any further message from the synthesis
\* service or the consumer, so the main loop terminates.
C18_CancelEndsMain == cancelled ~> (mpc = "done")

\* The state the interrupted run stays in: main waits in wg.Wait(), the drain
\* goroutine for a chunk, the read loop in ReadMessage, the capture loop has
\* returned.
C18_Stuck ==
    /\ cancelled
    /\ mpc = "wait"
    /\ cons = "ranging"
    /\ audio = <<>>
    /\ rpc = "read"
    /\ cpc = "done"

\* ------------------------------------------------------ capture claims, II

\* The frames from..to, in capture order.
FrameRun(from, to) == [i \in 1..(to - from + 1) |-> from + i - 1]

\* The number of active frames in a row from frame s on.
RECURSIVE ActiveRun(_)
ActiveRun(s) == IF s <= Len(frames) /\ frames[s] THEN 1 + ActiveRun(s + 1) ELSE 0

\* The last frame of the segment that starts at onset i when its active
\* frames are followed by silenceFrames inactive ones.
SegmentEnd(i) == onsets[i].at + ActiveRun(onsets[i].at) + opts.silenceFrames - 1

\* Onset i starts the scenario of C21: from the not-speaking state, active
\* frames, then silenceFrames + 1 inactive frames, all of them classified.
ActiveThenSilence(i) ==
    /\ SegmentEnd(i) + 1 <= Len(frames)
    /\ \A j \in (onsets[i].at + ActiveRun(onsets[i].at))..(SegmentEnd(i) + 1) : ~frames[j]

\* The body of the i-th utterance sent: what follows the pre-roll prefix.
Body(i) == SubSeq(emitted[i].utt, Len(onsets[i].prefix) + 1, Len(emitted[i].utt))

\* C21: from the not-speaking state, k >= 1 active frames followed by
\* silenceFrames + 1 inactive frames produce exactly one utterance; after the
\* pre-roll prefix it holds the k active frames and exactly silenceFrames
\* inactive frames; after the emission the segmenter is not speaking, the
\* silence counter is 0 and the utterance buffer is empty; the extra inactive
\* frame is in no utterance body.
C21_ActiveThenSilenceIsOneUtterance ==
    \A i \in 1..Len(onsets) :
        ActiveThenSilence(i) =>
            LET s == onsets[i].at
                e == SegmentEnd(i)
            IN  /\ boundaries \cap (s..(e + 1)) = {e}
                /\ i <= Len(emitted) => emitted[i].utt = onsets[i].prefix \o FrameRun(s, e)
                /\ \A j \in 1..Len(emitted) :
                      \A n \in 1..Len(Body(j)) : Body(j)[n] # e + 1
                /\ (Len(frames) = e + 1 /\ cpc # "done") =>
                      /\ Len(emitted) = i
                      /\ ~speaking
                      /\ silenceCount = 0
                      /\ utterance = <<>>

\* silenceFrames = 2: an inactive frame, two active frames and three inactive
\* frames were classified; one utterance was sent, the pre-roll frame first.
C21_Witness ==
    /\ opts.silenceFrames = 2
    /\ frames = <<FALSE, TRUE, TRUE, FALSE, FALSE, FALSE>>
    /\ Len(emitted) = 1
    /\ emitted[1].utt = <<1, 2, 3, 4, 5>>
    /\ ~speaking
    /\ utterance = <<>>

\* ------------------------------------------------------------ EncodeWAV claims

\* Reading a little-endian field of the header back: the bytes at Go offset
\* off.
Uint16At(b, off) == b[off + 1] + 256 * b[off + 2]
Uint32At(b, off) ==
    b[off + 1] + 256 * b[off + 2] + 65536 * b[off + 3] + 16777216 * b[off + 4]

\* What reading the header of b back gives.
ReadHeader(b) ==
    [fileSize      |-> Uint32At(b, 4),
     channels      |-> Uint16At(b, 22),
     sampleRate    |-> Uint32At(b, 24),
     byteRate      |-> Uint32At(b, 28),
     blockAlign    |-> Uint16At(b, 32),
     bitsPerSample |-> Uint16At(b, 34),
     dataSize      |-> Uint32At(b, 40)]

\* The header fields C22 names, for the arguments of the call.
ExpectedHeader ==
    [fileSize      |-> 36 + Len(wavArgs.pcm),
     channels      |-> wavArgs.channels,
     sampleRate    |-> wavArgs.sampleRate,
     byteRate      |-> (wavArgs.sampleRate * wavArgs.channels * wavArgs.bitsPerSample) \div 8,
     blockAlign    |-> (wavArgs.channels * wavArgs.bitsPerSample) \div 8,
     bitsPerSample |-> wavArgs.bitsPerSample,
     dataSize      |-> Len(wavArgs.pcm)]

\* 44 header bytes that read back as the expected fields, then pcm unchanged.
EncodedAsExpected ==
    /\ Len(wav) = 44 + Len(wavArgs.pcm)
    /\ SubSeq(wav, 45, Len(wav)) = wavArgs.pcm
    /\ ReadHeader(wav) = ExpectedHeader

\* C22 as stated: for every pcm and every sampleRate, channels and
\* bitsPerSample that fit their header fields, EncodeWAV returns exactly 44
\* header bytes followed by pcm unchanged, and the header reads back as
\* sampleRate, channels, bitsPerSample, dataSize = len(pcm), fileSize = 36 +
\* len(pcm), byteRate = sampleRate*channels*bitsPerSample/8 and blockAlign =
\* channels*bitsPerSample/8.
C22_HeaderReadsBack == wav # <<>> => EncodedAsExpected

\* The derived fields fit as well: blockAlign in 16 bits.  (fileSize and
\* byteRate fit their 32 bits for every call checked here.)
DerivedFieldsFit == ExpectedHeader.blockAlign < 65536

\* C22 amended: the same, for arguments whose derived values fit their header
\* fields too: channels*bitsPerSample/8 below 2^16, 36 + len(pcm) and
\* sampleRate*channels*bitsPerSample/8 below 2^32; the divisions round down.
C22_HeaderReadsBackWhenDerivedFit ==
    (wav # <<>> /\ DerivedFieldsFit) => EncodedAsExpected

\* The call main makes, on a slice of two bytes: 16000 Hz, one channel, 16
\* bits; the header says byteRate 32000 and blockAlign 2.
C22_Witness ==
    /\ wav # <<>>
    /\ wavArgs = [pcm |-> <<0, 255>>, sampleRate |-> 16000, channels |-> 1,
                  bitsPerSample |-> 16]
    /\ ReadHeader(wav).byteRate = 32000
    /\ ReadHeader(wav).blockAlign = 2
    /\ SubSeq(wav, 45, 46) = <<0, 255>>

\* ------------------------------------------------------------ main claims, II

\* What the current turn (the last one, between turns) has appended to the
\* conversation.
Added == SubSeq(conversation, Len(turnStart.conversation) + 1, Len(conversation))

\* The history in a state: the system message first, the history of the
\* start of the turn kept, and after it nothing, a user entry, or a user
\* entry and an assistant entry holding the trimmed, non-empty reply.
HistoryShape ==
    /\ conversation # <<>>
    /\ conversation[1] = SystemMessage
    /\ IsPrefix(turnStart.conversation, conversation)
    /\ Len(Added) <= 2
    /\ Len(Added) >= 1 => Added[1].role = "user"
    /\ Len(Added) = 2 =>
          /\ Added[2] = Message("assistant", TrimSpace(reply))
          /\ TrimSpace(reply) # <<>>

\* The history in a step: it stays or grows by one entry at its end.
HistoryStep ==
    /\ IsPrefix(conversation, conversation')
    /\ Len(conversation') <= Len(conversation) + 1

\* C23: the conversation history is append-only: its first entry is always
\* the system message, existing entries are never changed or removed, each
\* turn appends at most one user entry and at most one assistant entry, the
\* user entry first, and an assistant entry is appended only when the
\* accumulated reply is non-empty after trimming.
C23_HistoryIsAppendOnly == [](HistoryShape) /\ [][HistoryStep]_vars

\* Two turns are over: the first appended a user entry and an assistant
\* entry, the second a user entry only, its reply being blank.
C23_Witness ==
    /\ mpc = "range"
    /\ Len(received) = 2
    /\ Len(conversation) = 4
    /\ conversation[2].role = "user"
    /\ conversation[3].role = "assistant"
    /\ conversation[4].role = "user"
    /\ reply # <<>>
    /\ TrimSpace(reply) = <<>>

\* A step that uses the sink is a step of the only live drain goroutine, or
\* main's deferred speaker.Close() with no drain goroutine alive.
SinkStepHasOneUser ==
    playbackVars' # playbackVars =>
        IF stops' # stops
        THEN drains = 0 /\ mpc = "range" /\ mpc' = "done"
        ELSE drains = 1 /\ cons \in {"ranging", "flush"} /\ mpc # "done"

\* A step that changes the pre-roll ring is the capture loop handling a frame.
RingStepIsCapture ==
    ring' # ring => (cpc = "read" /\ cpc' # "read" /\ Len(frames') = Len(frames) + 1)

\* C24: the sink's pending buffer and frame buffer are never accessed by two
\* tasks at the same time: at most one drain goroutine is alive, every Play
\* and Flush is made by it, and main's Close runs when none is alive; the
\* pre-roll ring is accessed by the capture loop only.
C24_SinkAndRingAreNotShared ==
    /\ [](drains \in {0, 1} /\ (mpc = "done" => drains = 0))
    /\ [][SinkStepHasOneUser /\ RingStepIsCapture]_vars

\* The drain goroutines of two turns have each used the sink, and main has
\* closed it on its way out.
C24_Witness ==
    /\ mpc = "done"
    /\ stops = 1
    /\ Len(received) = 2
    /\ turnStart.sinkCalls >= 1
    /\ sinkCalls > turnStart.sinkCalls

\* ------------------------------------------------------------ playback claims, II

\* The device writes of Play calls.
PlayWrites == SelectSeq(device, LAMBDA w : w.op = "play")

\* C25 as stated: in Play the bytes of a frame are removed from the pending
\* buffer only after the device write for that frame, so at the moment of
\* each device write the pending buffer still begins with the frame being
\* written.
C25_PendingBeginsWithFrameAtWrite ==
    \A i \in 1..Len(PlayWrites) :
        IsPrefix(FrameBytes(PlayWrites[i].frame), PlayWrites[i].pend)

\* The pending buffer just before the k-th write of the last call cut its
\* frame off: the frame, then what is pending at the write.
BeforeCut(k) == FrameBytes(LastWrites[k].frame) \o LastWrites[k].pend

\* C25 amended: in Play the bytes of a frame are decoded into the frame
\* buffer and removed from the pending buffer before the device write for
\* that frame: at the moment of each device write the pending buffer holds
\* the bytes that follow the frame being written and not the frame, whether
\* or not the write succeeds.
C25_FrameIsCutBeforeWrite ==
    (pbLast.op = "play" /\ pbLast.nwrites > 0) =>
        /\ Len(BeforeCut(1)) = Len(pbLast.before) + pbLast.given
        /\ IsPrefix(pbLast.before, BeforeCut(1))
        /\ \A k \in 2..pbLast.nwrites : BeforeCut(k) = LastWrites[k - 1].pend
        /\ LastWrites[pbLast.nwrites].pend = pbLast.after

\* A Play of two frames: at the first write the second frame is what is
\* pending, at the second write nothing is.
C25_Witness ==
    /\ pbLast.op = "play"
    /\ pbLast.nwrites = 2
    /\ LastWrites[1].pend = FrameBytes(LastWrites[2].frame)
    /\ LastWrites[1].pend # FrameBytes(LastWrites[1].frame)
    /\ LastWrites[2].pend = <<>>

\* ------------------------------------------------------ capture claims, III

\* The i-th frame at which the silence threshold was reached.
BoundaryAt(i) == CHOOSE b \in boundaries : Cardinality({x \in boundaries : x <= b}) = i

\* A segment has reached the threshold and has not been sent: the loop is at
\* the send, or it returned from there.
Unsent ==
    IF cpc = "send" \/ (cpc = "done" /\ speaking /\ silenceCount >= opts.silenceFrames)
    THEN 1 ELSE 0

\* The utterances sent so far, in order.
SentUtterances == [i \in 1..Len(emitted) |-> emitted[i].utt]

\* C26: each detected speech segment (onset through the inactive frame that
\* reaches the silence threshold) results, absent cancellation, in exactly
\* one send on the utterance channel, and what was sent is never written to
\* by the capture loop afterwards: the consumer gets it as it was sent, and
\* the next utterance starts from a fresh buffer at a later onset.
C26_OneSendPerSegment ==
    /\ Cardinality(boundaries) = Len(emitted) + Unsent
    /\ Len(onsets) = Len(emitted) + (IF speaking THEN 1 ELSE 0)
    /\ (Unsent = 1 /\ cpc = "done") => cancelled
    /\ \A i \in 1..Len(emitted) :
          LET u == emitted[i].utt
              p == Len(onsets[i].prefix)
          IN  /\ Len(u) > p
              /\ u[p + 1] = onsets[i].at
              /\ u[Len(u)] = BoundaryAt(i)
              /\ i > 1 => onsets[i].at > BoundaryAt(i - 1)
    /\ received \o ch = SentUtterances
    /\ ~speaking => utterance = <<>>
    /\ speaking =>
          LET o == onsets[Len(onsets)]
          IN  /\ Len(utterance) > Len(o.prefix)
              /\ utterance[Len(o.prefix) + 1] = o.at
              /\ \A i \in 1..Len(emitted) : BoundaryAt(i) < o.at

\* Two segments were sent, the first one already received; the second began
\* with pre-roll frames, and a third is being accumulated.
C26_Witness ==
    /\ Len(emitted) = 2
    /\ Len(received) = 1
    /\ onsets[2].prefix # <<>>
    /\ speaking
    /\ ~cancelled

\* ------------------------------------------------------------ session claims, II

IsData(c) == c.Data # <<>> /\ ~c.Done /\ c.Error = "nil"
IsDone(c) == c.Done /\ c.Data = <<>> /\ c.Error = "nil"
IsError(c) == c.Error # "nil" /\ ~c.Done /\ c.Data = <<>>

\* c is exactly one of Data, Done and Error.
OneKind(c) ==
    \/ IsData(c) /\ ~IsDone(c) /\ ~IsError(c)
    \/ IsDone(c) /\ ~IsData(c) /\ ~IsError(c)
    \/ IsError(c) /\ ~IsData(c) /\ ~IsDone(c)

\* Every chunk the read loop has sent or is about to send is of one kind.
ChunksAreOneKind ==
    /\ \A i \in 1..Len(sent) : OneKind(sent[i])
    /\ \A i \in 1..Len(delivered) : OneKind(delivered[i])
    /\ rpc = "send" => OneKind(rchunk.chunk)

\* The step in which a message is read: a final message gives a Done chunk
\* and nothing else, the read loop returning after it; a message that is not
\* final and whose audio is empty, or decodes to no bytes, gives no chunk; a
\* message that is not final and whose audio decodes to bytes gives a Data
\* chunk with those bytes.
ReadStepGivesOneChunk ==
    msgs' = msgs + 1 =>
        LET m == lastMsg'
            d == DecodeString(m.audio)
        IN  /\ (m.json /\ m.isFinal) =>
                  rpc' = "send" /\ rchunk' = [chunk |-> DoneChunk, then |-> "exit"]
            /\ (m.json /\ ~m.isFinal /\ ~d.err /\ d.data = <<>>) =>
                  rpc' = "check" /\ rchunk' = rchunk
            /\ (m.json /\ ~m.isFinal /\ ~d.err /\ d.data # <<>>) =>
                  rpc' = "send" /\ rchunk' = [chunk |-> DataChunk(d.data), then |-> "check"]

\* C27: every chunk delivered by a session is exactly one of Data, Done or
\* Error: a Data chunk has a non-empty payload, Done false and Error nil
\* (server messages with empty audio produce no chunk), and a server message
\* flagged final produces only a Done chunk.
C27_ChunkIsOneKind == [](ChunksAreOneKind) /\ [][ReadStepGivesOneChunk]_vars

\* Three messages were read: one gave no chunk, one a Data chunk, and the
\* final one, which carried audio, a bare Done chunk; the consumer has
\* received the Data chunk and the Done chunk.
C27_Witness ==
    /\ msgs = 3
    /\ lastMsg.isFinal
    /\ lastMsg.audio # <<>>
    /\ Len(delivered) = 2
    /\ IsData(delivered[1])
    /\ delivered[2] = DoneChunk

\* C28: while speaking, every successfully classified frame, active or
\* inactive, is appended to the utterance in capture order: an emitted
\* utterance equals the pre-roll prefix followed by every classified frame
\* from the onset frame through the closing inactive frame, none omitted,
\* reordered or repeated, and so does the utterance being accumulated, up to
\* the last frame classified.
C28_EveryFrameIsAppended ==
    /\ \A i \in 1..Len(emitted) :
          emitted[i].utt = onsets[i].prefix \o FrameRun(onsets[i].at, BoundaryAt(i))
    /\ speaking =>
          LET o == onsets[Len(onsets)]
          IN  utterance = o.prefix \o FrameRun(o.at, Len(frames))

\* silenceFrames = 2: after a pre-roll frame, an active, an inactive, an
\* active and an inactive frame were sent as one utterance of five frames.
C28_Witness ==
    /\ opts.silenceFrames = 2
    /\ frames = <<FALSE, TRUE, FALSE, TRUE, FALSE>>
    /\ Len(emitted) = 1
    /\ emitted[1].utt = <<1, 2, 3, 4, 5>>

\* The frames pushed into the ring after frame lo and before frame hi: every
\* inactive frame is pushed, in capture order.
PushedBetween(lo, hi) == SelectSeq(FrameRun(lo + 1, hi - 1), LAMBDA k : ~frames[k])

\* The last n elements of s.
LastOf(s, n) == SubSeq(s, Len(s) - n + 1, Len(s))

\* The frame at which the ring was drained for the i-th time (0: never).
DrainAt(i) == IF i = 0 THEN 0 ELSE onsets[i].at

\* C29: for a ring of capacity N >= 1, a Drain returns the last
\* min(N, number of pushes) frames pushed since the previous Drain, oldest
\* first (whatever the number of pushes, the ring now holds exactly those),
\* and leaves the ring empty: a Drain that follows immediately returns
\* nothing, and no frame pushed before a Drain is returned by a later one.
C29_DrainReturnsLastPushes ==
    /\ \A i \in 1..Len(onsets) :
          LET pushed == PushedBetween(DrainAt(i - 1), DrainAt(i))
          IN  onsets[i].prefix = LastOf(pushed, Min(ring.size, Len(pushed)))
    /\ LET pushed == PushedBetween(DrainAt(Len(onsets)), Len(frames) + 1)
       IN  DrainOut(ring) = LastOf(pushed, Min(ring.size, Len(pushed)))
    /\ DrainOut(Drained(ring)) = <<>>

\* A ring of two slots was pushed three times and drained (the two newest
\* frames came back, oldest first), pushed once more and drained again: the
\* second Drain returned that one frame only.
C29_Witness ==
    /\ opts.preBufferFrames = 2
    /\ frames = <<FALSE, FALSE, FALSE, TRUE, FALSE, TRUE>>
    /\ Len(onsets) = 2
    /\ onsets[1].prefix = <<2, 3>>
    /\ onsets[2].prefix = <<5>>

\* The capture loop is at the send and the channel has no room.
SendBlocked == cpc = "send" /\ Len(ch) = chCap

\* While the send is blocked the loop stays at the send with its utterance,
\* reads no frame and sends nothing, until the consumer receives the oldest
\* pending utterance or, cancellation being signaled, the loop returns.
BlockedStep ==
    SendBlocked =>
        \/ /\ ch' = Tail(ch)
           /\ received' = Append(received, Head(ch))
           /\ UNCHANGED <<cpc, utterance, emitted, frames>>
        \/ /\ cancelled
           /\ cpc' = "done"
           /\ UNCHANGED <<ch, received, emitted, frames>>
        \/ UNCHANGED <<cpc, utterance, ch, received, emitted, frames>>

\* Every step keeps the utterances already queued or received: the channel
\* changes by a send at its end or by a receive at its head.
QueueStep ==
    \/ UNCHANGED <<ch, received>>
    \/ /\ Len(emitted') = Len(emitted) + 1
       /\ ch' = Append(ch, emitted'[Len(emitted')].utt)
       /\ UNCHANGED received
    \/ /\ ch # <<>>
       /\ ch' = Tail(ch)
       /\ received' = Append(received, Head(ch))
       /\ UNCHANGED emitted

\* The utterances that have left the capture loop, oldest first: those the
\* consumer has received, then those pending in the channel.
Handed == received \o ch

\* C30: the utterance channel never holds more than 4 pending utterances;
\* when it is full the capture loop blocks on the send until the consumer
\* receives one or cancellation is signaled; no queued utterance is dropped
\* or overwritten, and the consumer receives the utterances in the order in
\* which they were sent.
C30_QueueIsBoundedAndFifo ==
    /\ [](/\ Len(ch) <= chCap
          /\ Len(Handed) = Len(emitted)
          /\ \A i \in 1..Len(Handed) : Handed[i] = emitted[i].utt)
    /\ [][BlockedStep /\ QueueStep]_vars

\* Four utterances are pending, none has been received, and the loop is at
\* the send with a fifth.
C30_Witness ==
    /\ SendBlocked
    /\ ~cancelled
    /\ received = <<>>
    /\ Len(emitted) = 4
    /\ Cardinality(boundaries) = 5
    /\ utterance # <<>>

\* The frames of a sequence of frames.
FramesOf(u) == {u[k] : k \in 1..Len(u)}

\* C33: no captured frame appears in more than one emitted utterance: the
\* frames of an utterance's body, its trailing silence included, are not in
\* the pre-roll prefix of a later utterance.
C33_NoFrameInTwoUtterances ==
    \A i, j \in 1..Len(emitted) :
        i < j => FramesOf(emitted[i].utt) \cap FramesOf(emitted[j].utt) = {}

\* The step in which the capture loop returns and its deferred close(ch)
\* runs: cancellation has been signaled, the channel was open, and the step
\* sends nothing: the utterance being accumulated stays where it was.
CaptureCloseStep ==
    chClosed' # chClosed =>
        /\ cancelled
        /\ ~chClosed
        /\ chClosed'
        /\ cpc # "done"
        /\ cpc' = "done"
        /\ UNCHANGED <<ch, emitted, utterance, speaking, silenceCount>>

\* After the loop has returned it does nothing more: no frame is read, nothing
\* is sent and the channel is not closed again.
CaptureReturnedStep ==
    cpc = "done" =>
        /\ UNCHANGED <<cpc, chClosed, emitted, frames, utterance, lastRead>>
        /\ ch' \in {ch, Tail(ch)}

\* C34: the capture loop closes the utterance channel only after the
\* cancellation signal has been raised (a frame that cannot be read, whatever
\* the reason, or cannot be classified does not end the loop), it closes the
\* channel exactly once, on its return, and the utterance that is being
\* accumulated when the loop observes the cancellation is not sent.
C34_ClosedOnlyOnCancel ==
    /\ []((chClosed <=> cpc = "done") /\ (chClosed => cancelled))
    /\ [][CaptureCloseStep /\ CaptureReturnedStep]_vars

\* The loop had begun an utterance, a frame then failed to be read, and the
\* loop went on; cancellation was signaled and the loop returned at the top
\* of its next iteration: the channel is closed and the utterance was never
\* sent.
C34_Witness ==
    /\ chClosed
    /\ cancelled
    /\ lastRead = "failed"
    /\ speaking
    /\ utterance # <<>>
    /\ silenceCount < opts.silenceFrames
    /\ emitted = <<>>
    /\ ch = <<>>

\* The sink's last call was the first speaker.Play of the turn's drain task.
FirstPlayOfTurn == pbLast.op = "play" /\ Len(playLog) = 1

\* C31: when the drain task of a turn makes its first Play call the sink's
\* pending buffer is empty: bytes left over from an earlier turn, also one
\* that ended on an Error chunk or on a playback failure, are not played as
\* part of a later turn.
C31_FirstPlayFindsPendingEmpty == FirstPlayOfTurn => pbLast.before = <<>>

\* C32: whenever Flush is called on the sink, also after a Play that returned
\* a write error, the pending buffer holds less than one full frame of bytes,
\* so that Flush never stores a sample beyond the end of the one-frame device
\* buffer.
C32_FlushFindsLessThanAFrame ==
    /\ pbLast.op = "flush" => Len(pbLast.before) < frameSizeBytes
    /\ ~pbPanic

=============================================================================
